---------------------------- MODULE Spec2Model ----------------------------
(***************************************************************************)
(* UXR.QuestCamera native plugin: the two revisions of the render-thread   *)
(* bridge found in the repository.                                         *)
(*                                                                         *)
(*   rev = "ST" : STCaptureSessionHelper.cpp + Renderer.cpp +              *)
(*                JNIExtensions.cpp   (reference-counted Renderer,         *)
(*                three-flag completion callback)                          *)
(*   rev = "TM" : TextureManager.cpp + ShaderManager.cpp                   *)
(*                (shared GlobalRenderInfo struct, per-stream DrawInfo,    *)
(*                argument-less completion callback)                       *)
(*                                                                         *)
(* Each library is a separate build; a behaviour fixes rev in Init and     *)
(* only the handlers of that library run.  Every handler is one action.    *)
(* The JVM, the ASurfaceTexture NDK API and the GL driver are the          *)
(* environment: env holds what they own (live global references, live      *)
(* native handles, live GL object names, GL bindings, the render thread's  *)
(* attachment).  A handler is a function from the state and its inputs to  *)
(* the next state; the environment it returns carries in .trace the calls  *)
(* the handler made, in order; the trace is dropped when the handler       *)
(* returns.  env.misuse collects the calls that broke the contract of the  *)
(* JVM, the NDK or GL.  Environment outcomes the code tests for (a call    *)
(* failing, the render thread being attached) are inputs of the actions.   *)
(***************************************************************************)
EXTENDS Integers, Sequences, FiniteSets, TLC

\* ------------------------------------------------------------- bounds
\* timestamps a Java caller registers sessions under: 1..MaxTimestamp
MaxTimestamp == 2
\* GL texture names the driver hands out: 1..MaxTexture
MaxTexture == 2
\* GL framebuffer names the driver hands out: 1..MaxFramebuffer
MaxFramebuffer == 2
\* JVM global references (and native handles) live at once: 1..MaxObjects
MaxObjects == 2
\* Renderers live at once in ManyRenderersSpec: 1..MaxRenderers, one more
\* than the 8-bit reference counter holds twice over
MaxRenderers == 257

\* ------------------------------------------------------------- program constants
SETUP_NATIVE_TEXTURE_EVENT == 1
CLEANUP_NATIVE_TEXTURE_EVENT == 2
RENDER_TEXTURES_EVENT == 3
CREATE_GL_TEXTURE_EVENT == 1
DESTROY_GL_TEXTURE_EVENT == 2
UPDATE_SURFACE_TEXTURE_EVENT == 3
\* uint8_t Renderer::_staticReferenceHolders
Uint8Modulus == 256


Timestamps == 1..MaxTimestamp
TextureNames == 1..MaxTexture
FramebufferNames == 1..MaxFramebuffer
\* a jint textureId passed by the Java side: any texture name, or 0
TextureIds == 0..MaxTexture
\* JVM global references; 0 is the null reference
Objects == 1..MaxObjects
\* (unityTexture, width, height) of the setup payloads Unity sends: a valid
\* target, a target of width 0, one of height 0, and texture 0 (no texture)
UnityTargets == { [unityTexture |-> 1, width |-> 1, height |-> 1],
                  [unityTexture |-> 1, width |-> 0, height |-> 1],
                  [unityTexture |-> 1, width |-> 1, height |-> 0],
                  [unityTexture |-> 0, width |-> 1, height |-> 1] }
\* names of the shared GL objects (program, buffers, vertex array, shaders)
SharedNames == 1..2

VARIABLES
    rev,                                  \* which library this behaviour runs
    unityTarget,                          \* the target Unity allocates streams for
    phase,                                \* "initial" | "loaded" | "loadFailed" | "unloaded" | "unloadAborted"
    env,                                  \* JVM + NDK + GL driver state
    \* ---- both libraries
    g_javaVm,
    \* ---- STCaptureSessionHelper.cpp
    g_startCaptureSessionMtd,
    g_registeredSessions,
    g_renderers,
    g_surfaceTextures,
    \* ---- Renderer.cpp statics
    _staticReferenceHolders,
    _shaderProgram,
    _vertexBufferObject,
    _vertexArrayObject,
    \* ---- TextureManager.cpp
    g_startCaptureSessionMethodId,
    g_uninitializedSTCaptureSessionMap,
    g_registeredSurfaceTextureMap,
    g_drawInfosMap,
    g_renderInfo,
    \* ---- the threads inside the library, and who holds each std::mutex
    threads,
    mutexes

stVars == <<g_startCaptureSessionMtd, g_registeredSessions, g_renderers, g_surfaceTextures>>
rendererStatics == <<_staticReferenceHolders, _shaderProgram, _vertexBufferObject, _vertexArrayObject>>
tmVars == <<g_startCaptureSessionMethodId, g_uninitializedSTCaptureSessionMap,
            g_registeredSurfaceTextureMap, g_drawInfosMap, g_renderInfo>>
vars == <<rev, unityTarget, phase, env, g_javaVm, stVars, rendererStatics, tmVars, threads, mutexes>>

\* ------------------------------------------------------------- threads and mutexes
\* Unity's render thread(s) deliver the render events, a JVM thread calls the
\* native methods and JNI_OnUnload.
RenderThreads == {"render1", "render2"}
JavaThreads == {"java"}
Threads == RenderThreads \cup JavaThreads
\* the std::mutex objects of the library that runs
Mutexes ==
    IF rev = "ST" THEN {"g_registeredSessionsMtx", "g_renderersMtx", "g_surfaceTexturesMtx"}
    ELSE {"g_uninitializedSTCaptureSessionMapMutex", "g_registeredSurfaceTextureMapMutex",
          "g_drawInfosMapMutex"}
\* A thread outside the library.  Inside, op and pc say where it is, the
\* other fields are the locals of the function it runs and what the JVM knows
\* of the thread (attached, exceptionPending); trace holds the calls the
\* function has made so far.
Idle ==
    [ op |-> "none", pc |-> "idle", timestamp |-> 0, texture |-> 0, fbo |-> 0, session |-> 0,
      native |-> 0, shouldDetach |-> FALSE, result |-> FALSE,
      attached |-> FALSE, exceptionPending |-> FALSE, trace |-> <<>> ]

\* ------------------------------------------------------------- std::map
EmptyMap == <<>>
Has(m, k) == k \in DOMAIN m
Put(m, k, v) == [x \in (DOMAIN m) \cup {k} |-> IF x = k THEN v ELSE m[x]]
Erase(m, k) == [x \in (DOMAIN m) \ {k} |-> m[x]]
Range(m) == {m[k] : k \in DOMAIN m}

Min(S) == CHOOSE x \in S : \A y \in S : x <= y
\* the lowest name of names that is not live; 0 when there is none
FreeName(live, names) == IF names \ live = {} THEN 0 ELSE Min(names \ live)
SeqOfSet(S) == LET RECURSIVE f(_)
                   f(T) == IF T = {} THEN <<>> ELSE <<Min(T)>> \o f(T \ {Min(T)})
               IN f(S)
Calls(e, name) == Cardinality({i \in 1..Len(e.trace) : e.trace[i].call = name})
CallsWith(e, name, a) ==
    Cardinality({i \in 1..Len(e.trace) : e.trace[i].call = name /\ e.trace[i].arg = a})

\* ------------------------------------------------------------- environment
\* A call the running handler makes.
Log(e, call, arg) == [e EXCEPT !.trace = Append(@, [call |-> call, arg |-> arg])]
Flag(e, what) == [e EXCEPT !.misuse = @ \cup {what}]
\* A handler starts with an empty trace; what it called is the handler's
\* outcome and is dropped at its end, and so is the attachment of the thread
\* it ran on.
Begin(e) == [e EXCEPT !.trace = <<>>]
End(e) == [e EXCEPT !.trace = <<>>, !.attached = FALSE]
\* the calling thread: attached to the JVM or not
OnThread(e, attached) == [e EXCEPT !.attached = attached]

\* ---- JNI.  A global reference is a number; 0 is the null reference.
\* NewGlobalRef yields NextObject(e), a reference that is not live; 0 (null)
\* when the JVM has none left.
NextObject(e) == FreeName(e.globalRefs, Objects)
NewGlobalRef(e) ==
    Log(IF NextObject(e) = 0 THEN e ELSE [e EXCEPT !.globalRefs = @ \cup {NextObject(e)}],
        "NewGlobalRef", NextObject(e))

\* NewGlobalRef returning null (out of memory, or a null object)
NewGlobalRefFailed(e) == Log(e, "NewGlobalRef", 0)

\* Calling a Java method or DetachCurrentThread while an exception is pending
\* is a misuse of the interface (DeleteGlobalRef and the Exception* functions
\* may be called then).
JniCall(e) == IF e.exceptionPending THEN Flag(e, "JNI call with pending exception") ELSE e

DeleteGlobalRef(e, ref) ==
    LET e1 == IF ref \in e.globalRefs THEN e ELSE Flag(e, "DeleteGlobalRef of a dead reference")
    IN Log([e1 EXCEPT !.globalRefs = @ \ {ref}], "DeleteGlobalRef", ref)

\* ---- NDK surface texture.  The handle acquired together with global
\* reference n is handle n.  ASurfaceTexture_fromSurfaceTexture returns null
\* only for an object that is no SurfaceTexture; the Java declaration of the
\* native method admits no such object.
ASurfaceTexture_fromSurfaceTexture(e, owner) ==
    Log([e EXCEPT !.natives = @ \cup {owner}], "ASurfaceTexture_fromSurfaceTexture", owner)

ASurfaceTexture_release(e, handle) ==
    LET e1 == IF handle \in e.natives THEN e ELSE Flag(e, "ASurfaceTexture_release of a dead handle")
    IN Log([e1 EXCEPT !.natives = @ \ {handle}], "ASurfaceTexture_release", handle)

UseNative(e, call, handle) ==
    LET e1 == IF handle \in e.natives THEN e ELSE Flag(e, "use of a dead ASurfaceTexture")
    IN Log(e1, call, handle)

ASurfaceTexture_updateTexImage(e, handle) == UseNative(e, "ASurfaceTexture_updateTexImage", handle)
ASurfaceTexture_getTransformMatrix(e, handle) == UseNative(e, "ASurfaceTexture_getTransformMatrix", handle)

\* ---- GL.  An object is its name; name 0 is no object.  glGen* leaves 0
\* behind when the driver fails.  Shared objects get the lowest free name.
GlCreate(e, kind, call, name) ==
    Log(IF name = 0 THEN e ELSE [e EXCEPT ![kind] = @ \cup {name}], call, name)

\* glDelete* ignores name 0; deleting a name that is not live is flagged.
GlDelete(e, kind, call, name) ==
    IF name = 0 THEN Log(e, call, 0)
    ELSE LET e1 == IF name \in e[kind] THEN e ELSE Flag(e, call \o " of a dead name")
         IN Log([e1 EXCEPT ![kind] = @ \ {name}], call, name)

glGenTextures(e, name) == GlCreate(e, "textures", "glGenTextures", name)
glGenFramebuffers(e, name) == GlCreate(e, "framebuffers", "glGenFramebuffers", name)
glCreateShader(e, name) == GlCreate(e, "shaders", "glCreateShader", name)
glCreateProgram(e, name) == GlCreate(e, "programs", "glCreateProgram", name)
glGenBuffers(e, name) == GlCreate(e, "buffers", "glGenBuffers", name)
glGenVertexArrays(e, name) == GlCreate(e, "vertexArrays", "glGenVertexArrays", name)

glDeleteTextures(e, name) ==
    LET e1 == GlDelete(e, "textures", "glDeleteTextures", name)
    IN IF name # 0 /\ e1.bound.texture = name THEN [e1 EXCEPT !.bound.texture = 0] ELSE e1
glDeleteFramebuffers(e, name) ==
    LET e1 == GlDelete(e, "framebuffers", "glDeleteFramebuffers", name)
    IN IF name # 0 /\ e1.bound.framebuffer = name THEN [e1 EXCEPT !.bound.framebuffer = 0] ELSE e1
glDeleteShader(e, name) == GlDelete(e, "shaders", "glDeleteShader", name)
\* a program in use is deleted once it is no longer current; the name is gone at once
glDeleteProgram(e, name) == GlDelete(e, "programs", "glDeleteProgram", name)
glDeleteBuffers(e, name) == GlDelete(e, "buffers", "glDeleteBuffers", name)
glDeleteVertexArrays(e, name) ==
    LET e1 == GlDelete(e, "vertexArrays", "glDeleteVertexArrays", name)
    IN IF name # 0 /\ e1.bound.vertexArray = name THEN [e1 EXCEPT !.bound.vertexArray = 0] ELSE e1

glBindFramebuffer(e, name) == [e EXCEPT !.bound.framebuffer = name]
glBindTexture(e, name) == [e EXCEPT !.bound.texture = name]
glBindVertexArray(e, name) == [e EXCEPT !.bound.vertexArray = name]
glUseProgram(e, name) == [e EXCEPT !.bound.program = name]
glDraw(e, call) == Log(e, call, e.bound)

EnvInit ==
    [ globalRefs |-> {}, natives |-> {},
      attached |-> FALSE, exceptionPending |-> FALSE,
      textures |-> {}, framebuffers |-> {}, shaders |-> {}, programs |-> {},
      buffers |-> {}, vertexArrays |-> {},
      bound |-> [framebuffer |-> 0, texture |-> 0, vertexArray |-> 0, program |-> 0],
      misuse |-> {}, trace |-> <<>> ]

\* ------------------------------------------------------------- JNIExtensions.cpp
\* HasJNIException: ExceptionCheck, and if one is pending ExceptionDescribe
\* and ExceptionClear.  The result is e.exceptionPending before the call.
HasJNIException(e) ==
    LET e1 == Log(e, "ExceptionCheck", e.exceptionPending)
    IN IF e.exceptionPending
       THEN Log(Log([e1 EXCEPT !.exceptionPending = FALSE], "ExceptionDescribe", 0), "ExceptionClear", 0)
       ELSE e1

\* AttachEnv asking for a detach on a thread that was attached already
AttachEnv_AlwaysDetach(e, javaVm, jni) ==
    IF javaVm = 0 THEN [ok |-> FALSE, shouldDetach |-> FALSE, e |-> e]
    ELSE LET e1 == Log(e, "GetEnv", jni)
         IN IF jni = "GetEnvError" THEN [ok |-> FALSE, shouldDetach |-> FALSE, e |-> e1]
            ELSE IF e.attached THEN [ok |-> TRUE, shouldDetach |-> TRUE, e |-> e1]
            ELSE IF jni = "AttachFailed"
                 THEN [ok |-> FALSE, shouldDetach |-> FALSE,
                       e |-> Log(e1, "AttachCurrentThread", FALSE)]
                 ELSE [ok |-> TRUE, shouldDetach |-> TRUE,
                       e |-> Log([e1 EXCEPT !.attached = TRUE], "AttachCurrentThread", TRUE)]

\* AttachEnv(javaVm, &shouldDetach).  jni is what the JVM answers:
\*   "attached"     the thread is attached: GetEnv returns JNI_OK
\*   "ok"           the thread is detached, AttachCurrentThread works
\*   "GetEnvError"  GetEnv fails with an error other than JNI_EDETACHED
\*   "AttachFailed" the thread is detached, AttachCurrentThread fails
\* Result: [ok, shouldDetach, e]; ok = FALSE is the nullptr return.
AttachEnv(e, javaVm, jni) ==
    IF javaVm = 0 THEN [ok |-> FALSE, shouldDetach |-> FALSE, e |-> e]
    ELSE LET e1 == Log(e, "GetEnv", jni)
         IN IF jni = "GetEnvError" THEN [ok |-> FALSE, shouldDetach |-> FALSE, e |-> e1]
            ELSE IF e.attached THEN [ok |-> TRUE, shouldDetach |-> FALSE, e |-> e1]
            ELSE IF jni = "AttachFailed"
                 THEN [ok |-> FALSE, shouldDetach |-> FALSE,
                       e |-> Log(e1, "AttachCurrentThread", FALSE)]
                 ELSE [ok |-> TRUE, shouldDetach |-> TRUE,
                       e |-> Log([e1 EXCEPT !.attached = TRUE], "AttachCurrentThread", TRUE)]

\* DetachJNIEnv that does not detach
DetachJNIEnv_Skipped(e, javaVm) == e

DetachJNIEnv(e, javaVm) ==
    IF javaVm = 0 THEN e
    ELSE LET e1 == IF e.attached THEN e ELSE Flag(e, "DetachCurrentThread on a detached thread")
         IN Log([e1 EXCEPT !.attached = FALSE], "DetachCurrentThread", 0)

JniOutcomes == {"attached", "ok", "GetEnvError", "AttachFailed"}

\* CallBooleanMethod / CallVoidMethod(session, startCaptureSession, textureId).
\* outcome: "true" | "false" (the Java method's result) | "exception".
CallOutcomes == {"true", "false", "exception"}
CallStartCaptureSession(e, session, methodId, textureId, outcome) ==
    LET e1 == JniCall(e)
        e2 == IF methodId = 0 THEN Flag(e1, "JNI call with a null method id") ELSE e1
        e3 == IF session \in e2.globalRefs THEN e2 ELSE Flag(e2, "JNI call on a dead reference")
    IN Log([e3 EXCEPT !.exceptionPending = (outcome = "exception")],
           "startCaptureSession", [session |-> session, textureId |-> textureId])

\* ------------------------------------------------------------- Renderer.cpp
\* The statics of class Renderer as one value.
Statics == [ refs |-> _staticReferenceHolders, program |-> _shaderProgram,
             vbo |-> _vertexBufferObject, vao |-> _vertexArrayObject ]

Renderer(unityTexture, width, height) ==
    [ unityTexture |-> unityTexture, sourceTexture |-> 0, frameBufferObject |-> 0,
      width |-> width, height |-> height, disposed |-> FALSE ]

\* the GL call of Renderer::initialize that fails, if any
InitFailures == {"none", "compileVertex", "compileFragment", "glCreateProgram", "link",
                 "glGenVertexArrays", "glGenBuffers", "glBufferData", "glGenFramebuffers"}

\* compileShader: [ok, shader, e]
Renderer_compileShader(e, failed) ==
    LET name == FreeName(e.shaders, SharedNames)
        e1 == glCreateShader(e, name)
    IN IF name = 0 THEN [ok |-> FALSE, shader |-> 0, e |-> e1]
       ELSE IF failed THEN [ok |-> FALSE, shader |-> 0, e |-> glDeleteShader(e1, name)]
       ELSE [ok |-> TRUE, shader |-> name, e |-> e1]

\* linkShaderProgram leaving the program of a failed link alive
linkShaderProgram_KeepsProgram(S, e, fail) ==
    LET name == IF fail = "glCreateProgram" THEN 0 ELSE FreeName(e.programs, SharedNames)
        e1 == glCreateProgram(e, name)
    IN IF name = 0 THEN [ok |-> FALSE, S |-> [S EXCEPT !.program = 0], e |-> e1]
       ELSE IF fail = "link"
            THEN [ok |-> FALSE, S |-> [S EXCEPT !.program = 0], e |-> e1]
            ELSE [ok |-> TRUE, S |-> [S EXCEPT !.program = name], e |-> e1]

\* linkShaderProgram: [ok, S, e]
linkShaderProgram(S, e, fail) ==
    LET name == IF fail = "glCreateProgram" THEN 0 ELSE FreeName(e.programs, SharedNames)
        e1 == glCreateProgram(e, name)
    IN IF name = 0 THEN [ok |-> FALSE, S |-> [S EXCEPT !.program = 0], e |-> e1]
       ELSE IF fail = "link"
            THEN [ok |-> FALSE, S |-> [S EXCEPT !.program = 0], e |-> glDeleteProgram(e1, name)]
            ELSE [ok |-> TRUE, S |-> [S EXCEPT !.program = name], e |-> e1]

\* setupGeometry: [ok, S, e]
setupGeometry(S, e, fail) ==
    LET vao == IF fail = "glGenVertexArrays" THEN 0 ELSE FreeName(e.vertexArrays, SharedNames)
        e1 == glGenVertexArrays(e, vao)
        vbo == IF fail = "glGenBuffers" THEN 0 ELSE FreeName(e1.buffers, SharedNames)
        e2 == glGenBuffers(e1, vbo)
    IN IF vao = 0 THEN [ok |-> FALSE, S |-> S, e |-> e1]
       ELSE IF vbo = 0
            THEN [ok |-> FALSE, S |-> [S EXCEPT !.vao = 0], e |-> glDeleteVertexArrays(e2, vao)]
       ELSE IF fail = "glBufferData"
            THEN [ok |-> FALSE, S |-> [S EXCEPT !.vao = 0, !.vbo = 0],
                  e |-> glDeleteBuffers(glDeleteVertexArrays(e2, vao), vbo)]
       ELSE [ok |-> TRUE, S |-> [S EXCEPT !.vao = vao, !.vbo = vbo], e |-> e2]

\* the shader half of initialize building a program whether one exists or not
initializeProgram_Always(S, e, fail) ==
    LET vs == Renderer_compileShader(e, fail = "compileVertex")
    IN IF ~vs.ok THEN [ok |-> FALSE, S |-> S, e |-> vs.e]
       ELSE LET fs == Renderer_compileShader(vs.e, fail = "compileFragment")
            IN IF ~fs.ok THEN [ok |-> FALSE, S |-> S, e |-> glDeleteShader(fs.e, vs.shader)]
               ELSE LET l == linkShaderProgram(S, fs.e, fail)
                    IN [ok |-> l.ok, S |-> l.S,
                        e |-> glDeleteShader(glDeleteShader(l.e, vs.shader), fs.shader)]

\* the shader half of initialize (lines 77-94): [ok, S, e]
initializeProgram(S, e, fail) ==
    IF S.program # 0 THEN [ok |-> TRUE, S |-> S, e |-> e]
    ELSE LET vs == Renderer_compileShader(e, fail = "compileVertex")
         IN IF ~vs.ok THEN [ok |-> FALSE, S |-> S, e |-> vs.e]
            ELSE LET fs == Renderer_compileShader(vs.e, fail = "compileFragment")
                 IN IF ~fs.ok THEN [ok |-> FALSE, S |-> S, e |-> glDeleteShader(fs.e, vs.shader)]
                    ELSE LET l == linkShaderProgram(S, fs.e, fail)
                         IN [ok |-> l.ok, S |-> l.S,
                             e |-> glDeleteShader(glDeleteShader(l.e, vs.shader), fs.shader)]

\* Renderer::initialize(&texture): [ok, r, S, e, texture].  tex is the name
\* glGenTextures yields (0: it left _sourceTexture untouched).
\* p is the outcome of the shader half, g that of the geometry half.
initializeObjects(r, g, fail, tex) ==
    IF ~g.ok
    THEN [ok |-> FALSE, r |-> r, S |-> [g.S EXCEPT !.program = 0],
          e |-> glDeleteProgram(g.e, g.S.program), texture |-> 0]
    ELSE LET fbo == IF fail = "glGenFramebuffers" THEN 0
                    ELSE FreeName(g.e.framebuffers, FramebufferNames)
         IN [ok |-> TRUE,
             r |-> [r EXCEPT !.frameBufferObject = fbo, !.sourceTexture = tex],
             S |-> [g.S EXCEPT !.refs = (@ + 1) % Uint8Modulus],
             e |-> glBindTexture(glBindTexture(glGenTextures(glGenFramebuffers(g.e, fbo), tex),
                                               tex), 0),
             texture |-> tex]

initializeGeometry(r, p, fail, tex) ==
    IF ~p.ok THEN [ok |-> FALSE, r |-> r, S |-> p.S, e |-> p.e, texture |-> 0]
    ELSE initializeObjects(r, IF p.S.vbo = 0 THEN setupGeometry(p.S, p.e, fail)
                              ELSE [ok |-> TRUE, S |-> p.S, e |-> p.e],
                           fail, tex)

initialize(r, S, e, fail, tex) == initializeGeometry(r, initializeProgram(S, e, fail), fail, tex)

\* render without its draw call
render_NoDraw(r, S, e, surfaceTexture, fbComplete) ==
    LET e1 == ASurfaceTexture_updateTexImage(e, surfaceTexture)
        e2 == ASurfaceTexture_getTransformMatrix(e1, surfaceTexture)
        e3 == glBindFramebuffer(e2, r.frameBufferObject)
    IN IF ~fbComplete THEN [ok |-> FALSE, e |-> glBindFramebuffer(e3, 0)]
       ELSE [ok |-> TRUE, e |-> glBindFramebuffer(e3, 0)]

\* render leaving the framebuffer bound when it is incomplete
render_KeepsFramebuffer(r, S, e, surfaceTexture, fbComplete) ==
    LET e1 == ASurfaceTexture_updateTexImage(e, surfaceTexture)
        e2 == ASurfaceTexture_getTransformMatrix(e1, surfaceTexture)
        e3 == glBindFramebuffer(e2, r.frameBufferObject)
    IN IF ~fbComplete THEN [ok |-> FALSE, e |-> e3]
       ELSE LET e4 == glUseProgram(e3, S.program)
                e5 == glBindTexture(e4, r.sourceTexture)
                e6 == glBindVertexArray(e5, S.vao)
                e7 == glDraw(e6, "glDrawArrays")
                e8 == glBindTexture(glBindVertexArray(glBindFramebuffer(e7, 0), 0), 0)
            IN [ok |-> TRUE, e |-> e8]

\* Renderer::render(surfaceTexture): [ok, e]
render(r, S, e, surfaceTexture, fbComplete) ==
    LET e1 == ASurfaceTexture_updateTexImage(e, surfaceTexture)
        e2 == ASurfaceTexture_getTransformMatrix(e1, surfaceTexture)
        e3 == glBindFramebuffer(e2, r.frameBufferObject)
    IN IF ~fbComplete THEN [ok |-> FALSE, e |-> glBindFramebuffer(e3, 0)]
       ELSE LET e4 == glUseProgram(e3, S.program)
                e5 == glBindTexture(e4, r.sourceTexture)
                e6 == glBindVertexArray(e5, S.vao)
                e7 == glDraw(e6, "glDrawArrays")
                e8 == glBindTexture(glBindVertexArray(glBindFramebuffer(e7, 0), 0), 0)
            IN [ok |-> TRUE, e |-> e8]

\* dispose leaving the shared vertex buffer and its handle in place
dispose_KeepsGeometry(r, S, e) ==
    IF r.disposed THEN [r |-> r, S |-> S, e |-> e]
    ELSE LET refs == (S.refs + Uint8Modulus - 1) % Uint8Modulus
             e1 == IF r.frameBufferObject # 0 THEN glDeleteFramebuffers(e, r.frameBufferObject) ELSE e
             e2 == IF r.sourceTexture # 0 THEN glDeleteTextures(e1, r.sourceTexture) ELSE e1
             e3 == IF refs <= 0 /\ S.program # 0 THEN glDeleteProgram(e2, S.program) ELSE e2
             e4 == IF refs <= 0 /\ S.vao # 0 THEN glDeleteVertexArrays(e3, S.vao) ELSE e3
         IN [ r |-> [r EXCEPT !.disposed = TRUE, !.frameBufferObject = 0, !.sourceTexture = 0],
              S |-> IF refs <= 0 THEN [refs |-> refs, program |-> 0, vbo |-> S.vbo, vao |-> 0]
                    ELSE [S EXCEPT !.refs = refs],
              e |-> e4 ]

\* Renderer::dispose(): [r, S, e]
dispose(r, S, e) ==
    IF r.disposed THEN [r |-> r, S |-> S, e |-> e]
    ELSE LET refs == (S.refs + Uint8Modulus - 1) % Uint8Modulus
             e1 == IF r.frameBufferObject # 0 THEN glDeleteFramebuffers(e, r.frameBufferObject) ELSE e
             e2 == IF r.sourceTexture # 0 THEN glDeleteTextures(e1, r.sourceTexture) ELSE e1
             e3 == IF refs <= 0 /\ S.program # 0 THEN glDeleteProgram(e2, S.program) ELSE e2
             e4 == IF refs <= 0 /\ S.vao # 0 THEN glDeleteVertexArrays(e3, S.vao) ELSE e3
             e5 == IF refs <= 0 /\ S.vbo # 0 THEN glDeleteBuffers(e4, S.vbo) ELSE e4
         IN [ r |-> [r EXCEPT !.disposed = TRUE, !.frameBufferObject = 0, !.sourceTexture = 0],
              S |-> IF refs <= 0 THEN [refs |-> refs, program |-> 0, vbo |-> 0, vao |-> 0]
                    ELSE [S EXCEPT !.refs = refs],
              e |-> e5 ]

SetStatics(S) ==
    /\ _staticReferenceHolders' = S.refs
    /\ _shaderProgram' = S.program
    /\ _vertexBufferObject' = S.vbo
    /\ _vertexArrayObject' = S.vao

\* ------------------------------------------------------------- STCaptureSessionHelper.cpp
IsST == rev = "ST"
\* Java can call the library's native methods only between a successful
\* JNI_OnLoad and JNI_OnUnload; Unity's render events need neither.
\* phase "unloaded": JNI_OnUnload ran to its end; "unloadAborted": it returned
\* at its GetEnv check.
JavaCanCall == phase = "loaded"

\* The void* data of a render event: a null pointer, or the event's struct.
NullPayload == [null |-> TRUE]
\* struct NativeSetupData / struct TextureSetupData (without the callback pointer)
SetupPayloads == { [null |-> FALSE, unityTexture |-> unityTarget.unityTexture,
                     width |-> unityTarget.width, height |-> unityTarget.height,
                     timestamp |-> timestamp] : timestamp \in Timestamps }
\* struct NativeUpdateData / struct TextureUpdateData, TextureDeletionData
TexturePayloads == [null : {FALSE}, nativeTexture : TextureIds]

LoadOutcomes == {"ok", "GetEnvFailed", "FindClassFailed", "GetMethodIDFailed"}

ST_JNI_OnLoad(outcome) ==
    /\ IsST /\ phase = "initial"
    /\ g_javaVm' = 1
    /\ g_startCaptureSessionMtd' = IF outcome = "ok" THEN 1 ELSE 0
    /\ phase' = IF outcome = "ok" THEN "loaded" ELSE "loadFailed"
    /\ env' = End(Begin(env))
    /\ UNCHANGED <<threads, mutexes, rev, unityTarget, g_registeredSessions, g_renderers, g_surfaceTextures, rendererStatics, tmVars>>

\* release every pending session (lines 88-92)
ST_ReleaseSessions(e) ==
    LET RECURSIVE rel(_, _)
        rel(x, keys) == IF keys = <<>> THEN x
                        ELSE rel(DeleteGlobalRef(x, g_registeredSessions[Head(keys)]), Tail(keys))
    IN rel(e, SeqOfSet(DOMAIN g_registeredSessions))

\* release every registered surface texture (lines 95-101)
ST_ReleaseSurfaceTextures(e) ==
    LET RECURSIVE rel(_, _)
        rel(x, keys) ==
            IF keys = <<>> THEN x
            ELSE rel(DeleteGlobalRef(ASurfaceTexture_release(x, g_surfaceTextures[Head(keys)].native),
                                     g_surfaceTextures[Head(keys)].java),
                     Tail(keys))
    IN rel(e, SeqOfSet(DOMAIN g_surfaceTextures))

\* the Renderer map after JNI_OnUnload's loop (lines 103-108): every Renderer
\* is deleted (the class has no destructor) and the map cleared
ST_UnloadRenderers(renderers) == EmptyMap

\* what JNI_OnUnload does to the environment; getEnvOk: GetEnv returned JNI_OK
ST_Unload(e, getEnvOk) ==
    IF ~getEnvOk THEN Log(e, "GetEnv", "failed")
    ELSE ST_ReleaseSurfaceTextures(ST_ReleaseSessions(Log(e, "GetEnv", "ok")))

ST_JNI_OnUnload(getEnvOk) ==
    /\ IsST /\ phase = "loaded"
    /\ g_startCaptureSessionMtd' = 0
    /\ g_javaVm' = 0
    /\ phase' = IF getEnvOk THEN "unloaded" ELSE "unloadAborted"
    /\ env' = End(ST_Unload(Begin(env), getEnvOk))
    /\ IF ~getEnvOk
       THEN UNCHANGED <<g_registeredSessions, g_surfaceTextures, g_renderers>>
       ELSE /\ g_registeredSessions' = EmptyMap
            /\ g_surfaceTextures' = EmptyMap
            /\ g_renderers' = ST_UnloadRenderers(g_renderers)
    /\ UNCHANGED <<threads, mutexes, rev, unityTarget, rendererStatics, tmVars>>

\* the pending-session map and the environment after
\* registerCaptureSessionNative: [ret, sessions, e]
ST_RegisterSession(sessions, e, timestamp, newRefOk) ==
    IF Has(sessions, timestamp) THEN [ret |-> FALSE, sessions |-> sessions, e |-> Log(e, "LOGE", "twice")]
    ELSE IF ~newRefOk \/ NextObject(e) = 0
    THEN [ret |-> FALSE, sessions |-> sessions, e |-> NewGlobalRefFailed(e)]
    ELSE [ret |-> TRUE, sessions |-> Put(sessions, timestamp, NextObject(e)), e |-> NewGlobalRef(e)]

registerCaptureSessionNative(timestamp, newRefOk) ==
    /\ IsST /\ JavaCanCall
    /\ LET x == ST_RegisterSession(g_registeredSessions, Begin(env), timestamp, newRefOk)
       IN /\ g_registeredSessions' = x.sessions
          /\ env' = End(x.e)
    /\ UNCHANGED <<threads, mutexes, rev, unityTarget, phase, g_javaVm, g_startCaptureSessionMtd, g_renderers, g_surfaceTextures,
                   rendererStatics, tmVars>>

\* ST_DeregisterSession forgetting DeleteGlobalRef
ST_DeregisterSession_NoDelete(sessions, e, timestamp) ==
    IF Has(sessions, timestamp) THEN [sessions |-> Erase(sessions, timestamp), e |-> e]
    ELSE [sessions |-> sessions, e |-> e]

\* tryDeregisterCaptureSessionNative(timestamp): [sessions, e]
ST_DeregisterSession(sessions, e, timestamp) ==
    IF Has(sessions, timestamp)
    THEN [sessions |-> Erase(sessions, timestamp), e |-> DeleteGlobalRef(e, sessions[timestamp])]
    ELSE [sessions |-> sessions, e |-> e]

tryDeregisterCaptureSessionNative(timestamp) ==
    /\ IsST /\ JavaCanCall
    /\ LET x == ST_DeregisterSession(g_registeredSessions, Begin(env), timestamp)
       IN /\ g_registeredSessions' = x.sessions
          /\ env' = End(x.e)
    /\ UNCHANGED <<threads, mutexes, rev, unityTarget, phase, g_javaVm, g_startCaptureSessionMtd, g_renderers, g_surfaceTextures,
                   rendererStatics, tmVars>>

\* registerSurfaceTextureForUpdates(texture, textureId): [ret, map, e].
\* newRefOk: NewGlobalRef returned a reference (it returns null for a null
\* texture or when out of memory).
ST_RegisterSurfaceTexture(map, e, textureId, newRefOk) ==
    IF Has(map, textureId) THEN [ret |-> FALSE, map |-> map, e |-> Log(e, "LOGE", "twice")]
    ELSE IF ~newRefOk \/ NextObject(e) = 0
    THEN [ret |-> FALSE, map |-> map, e |-> NewGlobalRefFailed(e)]
    ELSE [ret |-> TRUE,
          map |-> Put(map, textureId, [java |-> NextObject(e), native |-> NextObject(e)]),
          e |-> ASurfaceTexture_fromSurfaceTexture(NewGlobalRef(e), NextObject(e))]

ST_registerSurfaceTextureForUpdates(textureId, newRefOk) ==
    /\ IsST /\ JavaCanCall
    /\ LET x == ST_RegisterSurfaceTexture(g_surfaceTextures, Begin(env), textureId, newRefOk)
       IN /\ g_surfaceTextures' = x.map
          /\ env' = End(x.e)
    /\ UNCHANGED <<threads, mutexes, rev, unityTarget, phase, g_javaVm, g_startCaptureSessionMtd, g_registeredSessions, g_renderers,
                   rendererStatics, tmVars>>

\* ST_DeregisterSurfaceTexture releasing the global reference only
ST_DeregisterSurfaceTexture_RefOnly(map, e, textureId) ==
    IF Has(map, textureId)
    THEN [map |-> Erase(map, textureId), e |-> DeleteGlobalRef(e, map[textureId].java)]
    ELSE [map |-> map, e |-> e]

\* deregisterSurfaceTextureForUpdates(textureId): [map, e]
ST_DeregisterSurfaceTexture(map, e, textureId) ==
    IF Has(map, textureId)
    THEN [map |-> Erase(map, textureId),
          e |-> DeleteGlobalRef(ASurfaceTexture_release(e, map[textureId].native), map[textureId].java)]
    ELSE [map |-> map, e |-> e]

ST_deregisterSurfaceTextureForUpdates(textureId) ==
    /\ IsST /\ JavaCanCall
    /\ LET x == ST_DeregisterSurfaceTexture(g_surfaceTextures, Begin(env), textureId)
       IN /\ g_surfaceTextures' = x.map
          /\ env' = End(x.e)
    /\ UNCHANGED <<threads, mutexes, rev, unityTarget, phase, g_javaVm, g_startCaptureSessionMtd, g_registeredSessions, g_renderers,
                   rendererStatics, tmVars>>

\* onDoneCallback(glIsClean, sessionCallSent, unityTexture, nativeTexture, idIsValid)
SetupDone(e, glIsClean, sessionCallSent, unityTexture, nativeTexture, idIsValid) ==
    Log(e, "onDoneCallback",
        [glIsClean |-> glIsClean, sessionCallSent |-> sessionCallSent,
         unityTexture |-> unityTexture, nativeTexture |-> nativeTexture, idIsValid |-> idIsValid])

\* a completion callback that is never invoked
TextureDone_Silent(e, textureId, success) == e

\* onDoneCallback(textureId, success)
TextureDone(e, textureId, success) ==
    Log(e, "onDoneCallback", [textureId |-> textureId, success |-> success])

\* ST_HandOff reporting a failed hand-off with the flags of a success
ST_HandOff_ReportsSuccess(data, i, jni, outcome) ==
    LET session == g_registeredSessions[data.timestamp]
        a == AttachEnv(i.e, g_javaVm, jni)
    IN IF ~a.ok
       THEN LET d == dispose(i.r, i.S, a.e)
            IN [sessions |-> g_registeredSessions, renderers |-> g_renderers, S |-> d.S,
                e |-> SetupDone(d.e, TRUE, FALSE, data.unityTexture, 0, FALSE)]
       ELSE LET e1 == CallStartCaptureSession(a.e, session, g_startCaptureSessionMtd,
                                              i.texture, outcome)
                e2 == DeleteGlobalRef(e1, session)
                e3 == HasJNIException(e2)
                e4 == IF a.shouldDetach THEN DetachJNIEnv(e3, g_javaVm) ELSE e3
            IN [sessions |-> Erase(g_registeredSessions, data.timestamp),
                renderers |-> Put(g_renderers, i.texture, i.r),
                S |-> i.S,
                e |-> SetupDone(e4, TRUE, TRUE, data.unityTexture, i.texture, TRUE)]

\* ST_HandOff leaving the Renderer of a failed attachment undisposed
ST_HandOff_KeepsRenderer(data, i, jni, outcome) ==
    LET session == g_registeredSessions[data.timestamp]
        a == AttachEnv(i.e, g_javaVm, jni)
    IN IF ~a.ok
       THEN [sessions |-> g_registeredSessions, renderers |-> g_renderers, S |-> i.S,
             e |-> SetupDone(a.e, TRUE, FALSE, data.unityTexture, 0, FALSE)]
       ELSE LET e1 == CallStartCaptureSession(a.e, session, g_startCaptureSessionMtd,
                                              i.texture, outcome)
                e2 == DeleteGlobalRef(e1, session)
                e3 == HasJNIException(e2)
                e4 == IF a.shouldDetach THEN DetachJNIEnv(e3, g_javaVm) ELSE e3
                failed == e2.exceptionPending \/ outcome # "true"
            IN [sessions |-> Erase(g_registeredSessions, data.timestamp),
                renderers |-> Put(g_renderers, i.texture, i.r),
                S |-> i.S,
                e |-> IF failed
                      THEN SetupDone(e4, FALSE, FALSE, data.unityTexture, i.texture, TRUE)
                      ELSE SetupDone(e4, TRUE, TRUE, data.unityTexture, i.texture, TRUE)]

\* setupNativeTextures from the hand-off on (lines 220-254), entered with the
\* Renderer i.r initialized and not yet in the map: [sessions, renderers, S, e]
ST_HandOff(data, i, jni, outcome) ==
    LET session == g_registeredSessions[data.timestamp]
        a == AttachEnv(i.e, g_javaVm, jni)
    IN IF ~a.ok
       THEN LET d == dispose(i.r, i.S, a.e)
            IN [sessions |-> g_registeredSessions, renderers |-> g_renderers, S |-> d.S,
                e |-> SetupDone(d.e, TRUE, FALSE, data.unityTexture, 0, FALSE)]
       ELSE LET e1 == CallStartCaptureSession(a.e, session, g_startCaptureSessionMtd,
                                              i.texture, outcome)
                e2 == DeleteGlobalRef(e1, session)
                e3 == HasJNIException(e2)
                e4 == IF a.shouldDetach THEN DetachJNIEnv(e3, g_javaVm) ELSE e3
                failed == e2.exceptionPending \/ outcome # "true"
            IN [sessions |-> Erase(g_registeredSessions, data.timestamp),
                renderers |-> Put(g_renderers, i.texture, i.r),
                S |-> i.S,
                e |-> IF failed
                      THEN SetupDone(e4, FALSE, FALSE, data.unityTexture, i.texture, TRUE)
                      ELSE SetupDone(e4, TRUE, TRUE, data.unityTexture, i.texture, TRUE)]

\* setupNativeTextures from the result of initialize on (lines 203-254), i
\* being what Renderer::initialize returned: [sessions, renderers, S, e]
ST_Initialized(data, i, jni, outcome) ==
    IF ~i.ok
    THEN [sessions |-> g_registeredSessions, renderers |-> g_renderers, S |-> i.S,
          e |-> SetupDone(i.e, TRUE, FALSE, data.unityTexture, 0, FALSE)]
    ELSE IF Has(g_renderers, i.texture)
    THEN LET d == dispose(i.r, i.S, i.e)
         IN [sessions |-> g_registeredSessions, renderers |-> g_renderers, S |-> d.S,
             e |-> SetupDone(d.e, TRUE, FALSE, data.unityTexture, 0, FALSE)]
    ELSE ST_HandOff(data, i, jni, outcome)

\* setupNativeTextures(data): [sessions, renderers, S, e]
ST_Setup(data, fail, tex, jni, outcome) ==
    IF ~Has(g_registeredSessions, data.timestamp)
    THEN [sessions |-> g_registeredSessions, renderers |-> g_renderers, S |-> Statics,
          e |-> SetupDone(OnThread(Begin(env), jni = "attached"), TRUE, FALSE,
                          data.unityTexture, 0, FALSE)]
    ELSE ST_Initialized(data,
                        initialize(Renderer(data.unityTexture, data.width, data.height),
                                   Statics, OnThread(Begin(env), jni = "attached"), fail, tex),
                        jni, outcome)

setupNativeTextures(data, fail, tex, jni, outcome) ==
    /\ IsST
    /\ \E x \in { IF data.null
                   THEN [sessions |-> g_registeredSessions, renderers |-> g_renderers, S |-> Statics,
                         e |-> Log(Begin(env), "LOGE", "no data")]
                   ELSE ST_Setup(data, fail, tex, jni, outcome) } :
          /\ g_registeredSessions' = x.sessions
          /\ g_renderers' = x.renderers
          /\ SetStatics(x.S)
          /\ env' = End(x.e)
    /\ UNCHANGED <<threads, mutexes, rev, unityTarget, phase, g_javaVm, g_startCaptureSessionMtd, g_surfaceTextures, tmVars>>

\* renderNativeTextures(data): the environment afterwards
ST_Render(surfaceTextures, renderers, S, e, texture, fbComplete) ==
    IF ~Has(surfaceTextures, texture) \/ ~Has(renderers, texture)
    THEN TextureDone(Log(e, "LOGE", "not found"), texture, FALSE)
    ELSE IF surfaceTextures[texture].native = 0
    THEN TextureDone(Log(e, "LOGE", "nonexistent"), texture, FALSE)
    ELSE LET x == render(renderers[texture], S, e, surfaceTextures[texture].native, fbComplete)
         IN TextureDone(x.e, texture, x.ok)

renderNativeTextures(data, fbComplete) ==
    /\ IsST
    /\ env' = End(IF data.null THEN Log(Begin(env), "LOGE", "no data")
                  ELSE ST_Render(g_surfaceTextures, g_renderers, Statics, Begin(env),
                                 data.nativeTexture, fbComplete))
    /\ UNCHANGED <<threads, mutexes, rev, unityTarget, phase, g_javaVm, stVars, rendererStatics, tmVars>>

\* ST_Cleanup disposing of the Renderer but leaving it in the map
ST_Cleanup_KeepsEntry(renderers, S, e, texture) ==
    IF ~Has(renderers, texture)
    THEN [renderers |-> renderers, S |-> S, e |-> TextureDone(Log(e, "LOGE", "unregistered"), texture, FALSE)]
    ELSE LET d == dispose(renderers[texture], S, e)
         IN [renderers |-> Put(renderers, texture, d.r), S |-> d.S,
             e |-> TextureDone(d.e, texture, TRUE)]

\* cleanupNativeData(data): [renderers, S, e]
ST_Cleanup(renderers, S, e, texture) ==
    IF ~Has(renderers, texture)
    THEN [renderers |-> renderers, S |-> S, e |-> TextureDone(Log(e, "LOGE", "unregistered"), texture, FALSE)]
    ELSE LET d == dispose(renderers[texture], S, e)
         IN [renderers |-> Erase(renderers, texture), S |-> d.S,
             e |-> TextureDone(d.e, texture, TRUE)]

cleanupNativeData(data) ==
    /\ IsST
    /\ \E x \in { IF data.null
                   THEN [renderers |-> g_renderers, S |-> Statics, e |-> Log(Begin(env), "LOGE", "no data")]
                   ELSE ST_Cleanup(g_renderers, Statics, Begin(env), data.nativeTexture) } :
          /\ g_renderers' = x.renderers
          /\ SetStatics(x.S)
          /\ env' = End(x.e)
    /\ UNCHANGED <<threads, mutexes, rev, unityTarget, phase, g_javaVm, g_startCaptureSessionMtd, g_registeredSessions,
                   g_surfaceTextures, tmVars>>

\* OnRenderEvent with an unrecognized event id: an error is logged
\* ST_Dispatch with the render and the cleanup handler under each other's event ID
ST_Dispatch_Swapped(eventId, data, f, tex, fbComplete) ==
    CASE eventId = SETUP_NATIVE_TEXTURE_EVENT ->
            IF data.null
            THEN [sessions |-> g_registeredSessions, renderers |-> g_renderers, S |-> Statics,
                  e |-> Log(Begin(env), "LOGE", "no data")]
            ELSE ST_Setup(data, f.fail, tex, f.jni, f.outcome)
      [] eventId = CLEANUP_NATIVE_TEXTURE_EVENT ->
            [sessions |-> g_registeredSessions, renderers |-> g_renderers, S |-> Statics,
             e |-> IF data.null THEN Log(Begin(env), "LOGE", "no data")
                   ELSE ST_Render(g_surfaceTextures, g_renderers, Statics, Begin(env),
                                  data.nativeTexture, fbComplete)]
      [] eventId = RENDER_TEXTURES_EVENT ->
            IF data.null
            THEN [sessions |-> g_registeredSessions, renderers |-> g_renderers, S |-> Statics,
                  e |-> Log(Begin(env), "LOGE", "no data")]
            ELSE [sessions |-> g_registeredSessions,
                  renderers |-> ST_Cleanup(g_renderers, Statics, Begin(env), data.nativeTexture).renderers,
                  S |-> ST_Cleanup(g_renderers, Statics, Begin(env), data.nativeTexture).S,
                  e |-> ST_Cleanup(g_renderers, Statics, Begin(env), data.nativeTexture).e]
      [] OTHER ->
            [sessions |-> g_registeredSessions, renderers |-> g_renderers, S |-> Statics,
             e |-> Log(Begin(env), "LOGE", eventId)]

\* OnRenderEvent(eventId, data), the switch over the event ID: [sessions,
\* renderers, S, e].  f, tex and fbComplete are what the handler called meets.
ST_Dispatch(eventId, data, f, tex, fbComplete) ==
    CASE eventId = SETUP_NATIVE_TEXTURE_EVENT ->
            IF data.null
            THEN [sessions |-> g_registeredSessions, renderers |-> g_renderers, S |-> Statics,
                  e |-> Log(Begin(env), "LOGE", "no data")]
            ELSE ST_Setup(data, f.fail, tex, f.jni, f.outcome)
      [] eventId = RENDER_TEXTURES_EVENT ->
            [sessions |-> g_registeredSessions, renderers |-> g_renderers, S |-> Statics,
             e |-> IF data.null THEN Log(Begin(env), "LOGE", "no data")
                   ELSE ST_Render(g_surfaceTextures, g_renderers, Statics, Begin(env),
                                  data.nativeTexture, fbComplete)]
      [] eventId = CLEANUP_NATIVE_TEXTURE_EVENT ->
            IF data.null
            THEN [sessions |-> g_registeredSessions, renderers |-> g_renderers, S |-> Statics,
                  e |-> Log(Begin(env), "LOGE", "no data")]
            ELSE [sessions |-> g_registeredSessions,
                  renderers |-> ST_Cleanup(g_renderers, Statics, Begin(env), data.nativeTexture).renderers,
                  S |-> ST_Cleanup(g_renderers, Statics, Begin(env), data.nativeTexture).S,
                  e |-> ST_Cleanup(g_renderers, Statics, Begin(env), data.nativeTexture).e]
      [] OTHER ->
            [sessions |-> g_registeredSessions, renderers |-> g_renderers, S |-> Statics,
             e |-> Log(Begin(env), "LOGE", eventId)]

ST_UnrecognizedEvent(eventId) ==
    /\ IsST
    /\ eventId \notin {SETUP_NATIVE_TEXTURE_EVENT, RENDER_TEXTURES_EVENT, CLEANUP_NATIVE_TEXTURE_EVENT}
    /\ env' = End(ST_Dispatch(eventId, NullPayload, [fail |-> "none", jni |-> "ok", outcome |-> "true"],
                              0, TRUE).e)
    /\ UNCHANGED <<threads, mutexes, rev, unityTarget, phase, g_javaVm, stVars, rendererStatics, tmVars>>

EventIds == 0..4
\* what goes wrong in one ALLOCATE: nothing, one GL call of the set-up, the
\* attachment of the render thread, or the Java method
SetupFaults ==
    [fail : InitFailures, jni : {"ok"}, outcome : {"true"}]
    \cup [fail : {"none"}, jni : JniOutcomes, outcome : {"true"}]
    \cup [fail : {"none"}, jni : {"attached", "ok"}, outcome : CallOutcomes]
\* the names glGenTextures may yield: a name not in use, or none
NewTextureNames == {0} \cup (TextureNames \ env.textures)

\* OnRenderEvent(eventId, data), one action per case of the switch
ST_Allocate ==
    \E data \in SetupPayloads \cup {NullPayload}, f \in SetupFaults, tex \in NewTextureNames :
        setupNativeTextures(data, f.fail, tex, f.jni, f.outcome)
ST_Update ==
    \E data \in TexturePayloads \cup {NullPayload}, fbComplete \in BOOLEAN :
        renderNativeTextures(data, fbComplete)
ST_Destroy == \E data \in TexturePayloads \cup {NullPayload} : cleanupNativeData(data)
ST_OnRenderEvent ==
    \/ ST_Allocate
    \/ ST_Update
    \/ ST_Destroy
    \/ \E eventId \in EventIds : ST_UnrecognizedEvent(eventId)

\* ------------------------------------------------------------- ShaderManager.cpp
\* struct GlobalRenderInfo with its default member initializers
GlobalRenderInfo ==
    [ program |-> 0, vbo |-> 0, ebo |-> 0, vao |-> 0,
      textureUniformLocation |-> -1, resolutionUniformLocation |-> -1 ]

\* the GL call of setupGlobals that fails, if any
GlobalsFailures == {"none", "compileVertex", "compileFragment", "glCreateProgram", "link",
                    "u_texture", "u_resolution", "vbo", "ebo", "vao"}

\* compileShader(type, source): [shader, e]; shader 0 on failure
ShaderManager_compileShader(e, failed) ==
    LET name == FreeName(e.shaders, SharedNames)
        e1 == glCreateShader(e, name)
    IN IF name = 0 THEN [shader |-> 0, e |-> e1]
       ELSE IF failed THEN [shader |-> 0, e |-> glDeleteShader(e1, name)]
       ELSE [shader |-> name, e |-> e1]

\* cleanupGlobals(renderInfo): [G, e]
cleanupGlobals(G, e) ==
    LET e1 == IF G.vao # 0 THEN glDeleteVertexArrays(e, G.vao) ELSE e
        e2 == IF G.ebo # 0 THEN glDeleteBuffers(e1, G.ebo) ELSE e1
        e3 == IF G.vbo # 0 THEN glDeleteBuffers(e2, G.vbo) ELSE e2
        e4 == IF G.program # 0 THEN glDeleteProgram(e3, G.program) ELSE e3
    IN [G |-> GlobalRenderInfo, e |-> e4]

Failed(c) == [ok |-> FALSE, G |-> c.G, e |-> c.e]

\* setupGlobals from the geometry on (lines 239-295), program G.program linked
setupGlobalsGeometry(G, e, fail) ==
    LET vbo == IF fail = "vbo" THEN 0 ELSE FreeName(e.buffers, SharedNames)
        e1 == glGenBuffers(e, vbo)
        G1 == [G EXCEPT !.vbo = vbo]
        ebo == IF fail = "ebo" THEN 0 ELSE FreeName(e1.buffers, SharedNames)
        e2 == glGenBuffers(e1, ebo)
        G2 == [G1 EXCEPT !.ebo = ebo]
        vao == IF fail = "vao" THEN 0 ELSE FreeName(e2.vertexArrays, SharedNames)
        e3 == glGenVertexArrays(e2, vao)
        G3 == [G2 EXCEPT !.vao = vao]
    IN IF vbo = 0 THEN Failed(cleanupGlobals(G1, e1))
       ELSE IF ebo = 0 THEN Failed(cleanupGlobals(G2, e2))
       ELSE IF vao = 0 THEN Failed(cleanupGlobals(G3, e3))
       ELSE [ok |-> TRUE, G |-> G3, e |-> e3]

\* setupGlobals(output): [ok, G, e].  *output = {} forgets the old handles.
setupGlobals(e, fail) ==
    LET G0 == GlobalRenderInfo
        vs == ShaderManager_compileShader(e, fail = "compileVertex")
        fs == ShaderManager_compileShader(vs.e, fail = "compileFragment")
        program == IF fail = "glCreateProgram" THEN 0 ELSE FreeName(fs.e.programs, SharedNames)
        e1 == glCreateProgram(fs.e, program)
        G1 == [G0 EXCEPT !.program = program]
        e2 == glDeleteShader(glDeleteShader(e1, vs.shader), fs.shader)
        G2 == [G1 EXCEPT !.textureUniformLocation = IF fail = "u_texture" THEN -1 ELSE 0]
        G3 == [G2 EXCEPT !.resolutionUniformLocation = IF fail = "u_resolution" THEN -1 ELSE 1]
    IN IF vs.shader = 0 THEN [ok |-> FALSE, G |-> G0, e |-> vs.e]
       ELSE IF fs.shader = 0 THEN [ok |-> FALSE, G |-> G0, e |-> glDeleteShader(fs.e, vs.shader)]
       ELSE IF program = 0 THEN [ok |-> FALSE, G |-> G1, e |-> e2]
       ELSE IF fail = "link" THEN Failed(cleanupGlobals(G1, e2))
       ELSE IF fail = "u_texture" THEN Failed(cleanupGlobals(G2, e2))
       ELSE IF fail = "u_resolution" THEN Failed(cleanupGlobals(G3, e2))
       ELSE setupGlobalsGeometry(G3, e2, fail)

\* checkGlobalRenderInfo(renderInfo): [ok, G, e]
checkGlobalRenderInfo(G, e, fail) ==
    IF G.program = 0 \/ G.vao = 0 \/ G.ebo = 0 \/ G.vbo = 0
       \/ G.resolutionUniformLocation = -1 \/ G.textureUniformLocation = -1
    THEN setupGlobals(e, fail)
    ELSE [ok |-> TRUE, G |-> G, e |-> e]

\* createFrameBuffer(): the name, 0 on failure
createFrameBuffer(e, failed) == IF failed THEN 0 ELSE FreeName(e.framebuffers, FramebufferNames)

cleanupFrameBuffer(e, frameBufferId) ==
    IF frameBufferId = 0 THEN e ELSE glDeleteFramebuffers(e, frameBufferId)

\* the three validations at the top of renderFrame (lines 358-371)
RenderFrameValid(G, D) ==
    /\ ~(G.program = 0 \/ G.vao = 0 \/ G.textureUniformLocation = -1 \/ G.resolutionUniformLocation = -1)
    /\ ~(D.fbo = 0 \/ D.sourceTextureId = 0 \/ D.targetTextureId = 0)
    /\ ~(D.viewportWidth <= 0 \/ D.viewportHeight <= 0)

\* renderFrame(renderInfo, drawInfo): the environment afterwards
renderFrame(G, D, e, fbComplete) ==
    IF ~RenderFrameValid(G, D) THEN Log(e, "LOGE", "renderFrame error")
    ELSE LET e1 == glBindFramebuffer(e, D.fbo)
         IN IF ~fbComplete THEN glBindFramebuffer(Log(e1, "LOGE", "FrameBuffer is not complete"), 0)
            ELSE LET e2 == glUseProgram(e1, G.program)
                     e3 == glBindTexture(e2, D.sourceTextureId)
                     e4 == glBindVertexArray(e3, G.vao)
                     e5 == glDraw(e4, "glDrawElements")
                 IN glBindFramebuffer(glUseProgram(glBindTexture(glBindVertexArray(e5, 0), 0), 0), 0)

\* ------------------------------------------------------------- TextureManager.cpp
IsTM == rev = "TM"

TM_JNI_OnLoad(outcome) ==
    /\ IsTM /\ phase = "initial"
    /\ g_javaVm' = 1
    /\ g_startCaptureSessionMethodId' = IF outcome = "ok" THEN 1 ELSE 0
    /\ phase' = IF outcome = "ok" THEN "loaded" ELSE "loadFailed"
    /\ env' = End(Begin(env))
    /\ UNCHANGED <<threads, mutexes, rev, unityTarget, stVars, rendererStatics, g_uninitializedSTCaptureSessionMap,
                   g_registeredSurfaceTextureMap, g_drawInfosMap, g_renderInfo>>

\* TM_ReleaseSessions releasing nothing
TM_ReleaseSessions_None(e) == e

\* release every pending session (lines 97-102)
TM_ReleaseSessions(e) ==
    LET RECURSIVE rel(_, _)
        rel(x, keys) ==
            IF keys = <<>> THEN x
            ELSE rel(DeleteGlobalRef(x, g_uninitializedSTCaptureSessionMap[Head(keys)]), Tail(keys))
    IN rel(e, SeqOfSet(DOMAIN g_uninitializedSTCaptureSessionMap))

\* release every registered surface texture (lines 105-111)
TM_ReleaseSurfaceTextures(e) ==
    LET RECURSIVE rel(_, _)
        rel(x, keys) ==
            IF keys = <<>> THEN x
            ELSE LET st == g_registeredSurfaceTextureMap[Head(keys)]
                 IN rel(DeleteGlobalRef(ASurfaceTexture_release(x, st.nativeSurfaceTexture),
                                        st.jniSurfaceTexture),
                        Tail(keys))
    IN rel(e, SeqOfSet(DOMAIN g_registeredSurfaceTextureMap))

\* the Draw Info map after JNI_OnUnload: the function never touches it
TM_UnloadDrawInfos(drawInfos) == drawInfos

\* what JNI_OnUnload does to the environment; getEnvOk: GetEnv returned JNI_OK
TM_Unload(e, getEnvOk) ==
    IF ~getEnvOk THEN Log(e, "GetEnv", "failed")
    ELSE TM_ReleaseSurfaceTextures(TM_ReleaseSessions(Log(e, "GetEnv", "ok")))

TM_JNI_OnUnload(getEnvOk) ==
    /\ IsTM /\ phase = "loaded"
    /\ g_startCaptureSessionMethodId' = 0
    /\ g_javaVm' = 0
    /\ phase' = IF getEnvOk THEN "unloaded" ELSE "unloadAborted"
    /\ env' = End(TM_Unload(Begin(env), getEnvOk))
    /\ IF ~getEnvOk
       THEN UNCHANGED <<g_uninitializedSTCaptureSessionMap, g_registeredSurfaceTextureMap>>
       ELSE /\ g_uninitializedSTCaptureSessionMap' = EmptyMap
            /\ g_registeredSurfaceTextureMap' = EmptyMap
    /\ g_drawInfosMap' = TM_UnloadDrawInfos(g_drawInfosMap)
    /\ UNCHANGED <<threads, mutexes, rev, unityTarget, stVars, rendererStatics, g_renderInfo>>

\* AttachEnv(&shouldDetach) of TextureManager.cpp: [ok, shouldDetach, e]
TM_AttachEnv(e, javaVm, jni) ==
    IF javaVm = 0 THEN [ok |-> FALSE, shouldDetach |-> FALSE, e |-> e]
    ELSE LET e1 == Log(e, "GetEnv", jni)
         IN IF jni # "GetEnvError" /\ ~e.attached
            THEN IF jni = "AttachFailed"
                 THEN [ok |-> FALSE, shouldDetach |-> FALSE,
                       e |-> Log(e1, "AttachCurrentThread", FALSE)]
                 ELSE [ok |-> TRUE, shouldDetach |-> TRUE,
                       e |-> Log([e1 EXCEPT !.attached = TRUE], "AttachCurrentThread", TRUE)]
            ELSE IF jni = "GetEnvError" THEN [ok |-> FALSE, shouldDetach |-> FALSE, e |-> e1]
            ELSE [ok |-> TRUE, shouldDetach |-> FALSE, e |-> e1]

TM_DetachJNIEnv(e, javaVm) ==
    IF javaVm = 0 THEN e
    ELSE LET e1 == IF e.attached THEN e ELSE Flag(e, "DetachCurrentThread on a detached thread")
         IN Log([e1 EXCEPT !.attached = FALSE], "DetachCurrentThread", 0)

CheckAndLogJNIException(e) ==
    LET e1 == Log(e, "ExceptionCheck", e.exceptionPending)
    IN IF e.exceptionPending
       THEN Log(Log([e1 EXCEPT !.exceptionPending = FALSE], "ExceptionDescribe", 0), "ExceptionClear", 0)
       ELSE e1

\* TM_QueueSession overwriting the pending session without releasing it
TM_QueueSession_NoRelease(map, e, timeStamp, newRefOk) ==
    IF ~newRefOk \/ NextObject(e) = 0 THEN [map |-> map, e |-> NewGlobalRefFailed(e)]
    ELSE [map |-> Put(map, timeStamp, NextObject(e)), e |-> NewGlobalRef(e)]

\* queueSurfaceTextureCaptureSession(timeStamp): [map, e]
TM_QueueSession(map, e, timeStamp, newRefOk) ==
    IF ~newRefOk \/ NextObject(e) = 0 THEN [map |-> map, e |-> NewGlobalRefFailed(e)]
    ELSE LET globalRef == NextObject(e)
             e1 == NewGlobalRef(e)
         IN IF Has(map, timeStamp)
            THEN [map |-> Put(map, timeStamp, globalRef), e |-> DeleteGlobalRef(e1, map[timeStamp])]
            ELSE [map |-> Put(map, timeStamp, globalRef), e |-> e1]

queueSurfaceTextureCaptureSession(timeStamp, newRefOk) ==
    /\ IsTM /\ JavaCanCall
    /\ LET x == TM_QueueSession(g_uninitializedSTCaptureSessionMap, Begin(env), timeStamp, newRefOk)
       IN /\ g_uninitializedSTCaptureSessionMap' = x.map
          /\ env' = End(x.e)
    /\ UNCHANGED <<threads, mutexes, rev, unityTarget, phase, g_javaVm, stVars, rendererStatics, g_startCaptureSessionMethodId,
                   g_registeredSurfaceTextureMap, g_drawInfosMap, g_renderInfo>>

\* TM_RegisterSurfaceTexture releasing the old global reference but not the
\* old native handle
TM_RegisterSurfaceTexture_KeepsNative(map, e, textureId, newRefOk) ==
    IF ~newRefOk \/ NextObject(e) = 0 THEN [map |-> map, e |-> NewGlobalRefFailed(e)]
    ELSE LET globalRef == NextObject(e)
             e1 == NewGlobalRef(e)
             e2 == IF Has(map, textureId) THEN DeleteGlobalRef(e1, map[textureId].jniSurfaceTexture)
                   ELSE e1
         IN [map |-> Put(map, textureId,
                         [nativeSurfaceTexture |-> globalRef, jniSurfaceTexture |-> globalRef]),
             e |-> ASurfaceTexture_fromSurfaceTexture(e2, globalRef)]

\* TM_RegisterSurfaceTexture releasing the old pair before it creates the new
\* global reference
TM_RegisterSurfaceTexture_ReleasesFirst(map, e, textureId, newRefOk) ==
    LET e0 == IF Has(map, textureId)
              THEN DeleteGlobalRef(ASurfaceTexture_release(e, map[textureId].nativeSurfaceTexture),
                                   map[textureId].jniSurfaceTexture)
              ELSE e
    IN IF ~newRefOk \/ NextObject(e0) = 0
       THEN [map |-> Erase(map, textureId), e |-> NewGlobalRefFailed(e0)]
       ELSE LET globalRef == NextObject(e0)
            IN [map |-> Put(map, textureId,
                            [nativeSurfaceTexture |-> globalRef, jniSurfaceTexture |-> globalRef]),
                e |-> ASurfaceTexture_fromSurfaceTexture(NewGlobalRef(e0), globalRef)]

\* registerSurfaceTextureForUpdates(surfaceTexture, textureId): [map, e]
TM_RegisterSurfaceTexture(map, e, textureId, newRefOk) ==
    IF ~newRefOk \/ NextObject(e) = 0 THEN [map |-> map, e |-> NewGlobalRefFailed(e)]
    ELSE LET globalRef == NextObject(e)
             e1 == NewGlobalRef(e)
             e2 == IF Has(map, textureId)
                   THEN DeleteGlobalRef(ASurfaceTexture_release(e1, map[textureId].nativeSurfaceTexture),
                                        map[textureId].jniSurfaceTexture)
                   ELSE e1
         IN [map |-> Put(map, textureId,
                         [nativeSurfaceTexture |-> globalRef, jniSurfaceTexture |-> globalRef]),
             e |-> ASurfaceTexture_fromSurfaceTexture(e2, globalRef)]

TM_registerSurfaceTextureForUpdates(textureId, newRefOk) ==
    /\ IsTM /\ JavaCanCall
    /\ LET x == TM_RegisterSurfaceTexture(g_registeredSurfaceTextureMap, Begin(env), textureId, newRefOk)
       IN /\ g_registeredSurfaceTextureMap' = x.map
          /\ env' = End(x.e)
    /\ UNCHANGED <<threads, mutexes, rev, unityTarget, phase, g_javaVm, stVars, rendererStatics, g_startCaptureSessionMethodId,
                   g_uninitializedSTCaptureSessionMap, g_drawInfosMap, g_renderInfo>>

\* TM_DeregisterSurfaceTexture saying nothing about a texture ID it does not know
TM_DeregisterSurfaceTexture_Silent(map, e, textureId) ==
    IF ~Has(map, textureId) THEN [map |-> map, e |-> e]
    ELSE [map |-> Erase(map, textureId),
          e |-> DeleteGlobalRef(ASurfaceTexture_release(e, map[textureId].nativeSurfaceTexture),
                                map[textureId].jniSurfaceTexture)]

\* deregisterSurfaceTextureForUpdates(textureId): [map, e]
TM_DeregisterSurfaceTexture(map, e, textureId) ==
    IF ~Has(map, textureId) THEN [map |-> map, e |-> Log(e, "LOGE", "never registered")]
    ELSE [map |-> Erase(map, textureId),
          e |-> DeleteGlobalRef(ASurfaceTexture_release(e, map[textureId].nativeSurfaceTexture),
                                map[textureId].jniSurfaceTexture)]

TM_deregisterSurfaceTextureForUpdates(textureId) ==
    /\ IsTM /\ JavaCanCall
    /\ LET x == TM_DeregisterSurfaceTexture(g_registeredSurfaceTextureMap, Begin(env), textureId)
       IN /\ g_registeredSurfaceTextureMap' = x.map
          /\ env' = End(x.e)
    /\ UNCHANGED <<threads, mutexes, rev, unityTarget, phase, g_javaVm, stVars, rendererStatics, g_startCaptureSessionMethodId,
                   g_uninitializedSTCaptureSessionMap, g_drawInfosMap, g_renderInfo>>

\* void (*onDoneCallback)(): no arguments
Done(e) == Log(e, "onDoneCallback", <<>>)

\* updateSurfaceTextureNative(data): the environment afterwards
TM_Update(surfaceTextures, drawInfos, G, e, id, fbComplete) ==
    IF ~Has(surfaceTextures, id) THEN Done(Log(e, "LOGE", "no SurfaceTexture"))
    ELSE LET e1 == ASurfaceTexture_updateTexImage(e, surfaceTextures[id].nativeSurfaceTexture)
         IN IF ~Has(drawInfos, id) THEN Done(Log(e1, "LOGE", "no DrawInfo"))
            ELSE Done(renderFrame(G, drawInfos[id], e1, fbComplete))

updateSurfaceTextureNative(data, fbComplete) ==
    /\ IsTM
    /\ env' = End(TM_Update(g_registeredSurfaceTextureMap, g_drawInfosMap, g_renderInfo, Begin(env),
                            data.nativeTexture, fbComplete))
    /\ UNCHANGED <<threads, mutexes, rev, unityTarget, phase, g_javaVm, stVars, rendererStatics, tmVars>>

\* TM_Delete leaving the framebuffer of the entry behind
TM_Delete_KeepsFramebuffer(drawInfos, e, textureId) ==
    IF Has(drawInfos, textureId)
    THEN [drawInfos |-> Erase(drawInfos, textureId),
          e |-> Done(glDeleteTextures(e, drawInfos[textureId].sourceTextureId))]
    ELSE [drawInfos |-> drawInfos, e |-> Done(Log(e, "LOGE", "DrawInfo was not found"))]

\* deleteTextureNative(data): [drawInfos, e]
TM_Delete(drawInfos, e, textureId) ==
    IF Has(drawInfos, textureId)
    THEN [drawInfos |-> Erase(drawInfos, textureId),
          e |-> Done(glDeleteTextures(cleanupFrameBuffer(e, drawInfos[textureId].fbo),
                                      drawInfos[textureId].sourceTextureId))]
    ELSE [drawInfos |-> drawInfos, e |-> Done(Log(e, "LOGE", "DrawInfo was not found"))]

deleteTextureNative(data) ==
    /\ IsTM
    /\ LET x == TM_Delete(g_drawInfosMap, Begin(env), data.nativeTexture)
       IN /\ g_drawInfosMap' = x.drawInfos
          /\ env' = End(x.e)
    /\ UNCHANGED <<threads, mutexes, rev, unityTarget, phase, g_javaVm, stVars, rendererStatics, g_startCaptureSessionMethodId,
                   g_uninitializedSTCaptureSessionMap, g_registeredSurfaceTextureMap, g_renderInfo>>

\* struct DrawInfo
DrawInfo(sourceTextureId, targetTextureId, fbo, width, height) ==
    [ sourceTextureId |-> sourceTextureId, targetTextureId |-> targetTextureId, fbo |-> fbo,
      viewportWidth |-> width, viewportHeight |-> height ]

\* lines 339-353: the Draw Info map and the environment after the new entry
\* is stored, an older entry under the same name being released: [drawInfos, e]
TM_StoreDrawInfo(drawInfos, e, drawInfo) ==
    LET id == drawInfo.sourceTextureId
    IN IF Has(drawInfos, id)
       THEN LET e1 == cleanupFrameBuffer(e, drawInfos[id].fbo)
                e2 == IF drawInfos[id].sourceTextureId # 0
                      THEN glDeleteTextures(e1, drawInfos[id].sourceTextureId) ELSE e1
            IN [drawInfos |-> Put(drawInfos, id, drawInfo), e |-> e2]
       ELSE [drawInfos |-> Put(drawInfos, id, drawInfo), e |-> e]

\* TM_Rollback leaving the texture of this call behind
TM_Rollback_KeepsTexture(drawInfos, e, drawInfo) ==
    [drawInfos |-> Erase(drawInfos, drawInfo.sourceTextureId),
     e |-> cleanupFrameBuffer(e, drawInfo.fbo)]

\* lines 360-362 and 373-375: undo the texture, framebuffer and map entry of this call
TM_Rollback(drawInfos, e, drawInfo) ==
    [drawInfos |-> Erase(drawInfos, drawInfo.sourceTextureId),
     e |-> cleanupFrameBuffer(glDeleteTextures(e, drawInfo.sourceTextureId), drawInfo.fbo)]

\* setupTextureNative from the session lookup on (lines 355-395), the Draw
\* Info stored: [sessions, drawInfos, e]
TM_HandOff(data, stored, drawInfo, jni, outcome) ==
    LET sessions == g_uninitializedSTCaptureSessionMap
    IN IF ~Has(sessions, data.timestamp)
       THEN LET u == TM_Rollback(stored.drawInfos, Log(stored.e, "LOGE", "no session"), drawInfo)
            IN [sessions |-> sessions, drawInfos |-> u.drawInfos, e |-> Done(u.e)]
       ELSE LET a == TM_AttachEnv(stored.e, g_javaVm, jni)
            IN IF ~a.ok
               THEN LET u == TM_Rollback(stored.drawInfos, a.e, drawInfo)
                    IN [sessions |-> sessions, drawInfos |-> u.drawInfos, e |-> Done(u.e)]
               ELSE LET session == sessions[data.timestamp]
                        e1 == CallStartCaptureSession(a.e, session, g_startCaptureSessionMethodId,
                                                      drawInfo.sourceTextureId, outcome)
                        threw == e1.exceptionPending
                        e2 == CheckAndLogJNIException(e1)
                        e3 == IF threw THEN e2 ELSE DeleteGlobalRef(e2, session)
                        e4 == IF a.shouldDetach THEN TM_DetachJNIEnv(e3, g_javaVm) ELSE e3
                    IN [sessions |-> IF threw THEN sessions ELSE Erase(sessions, data.timestamp),
                        drawInfos |-> stored.drawInfos, e |-> Done(e4)]

\* setupTextureNative from the framebuffer on (lines 324-395), e the
\* environment after glGenTextures yielded tex # 0: [sessions, drawInfos, e]
TM_Framebuffer(data, e, tex, fboFailed, jni, outcome) ==
    LET fbo == createFrameBuffer(e, fboFailed)
        drawInfo == DrawInfo(tex, data.unityTexture, fbo, data.width, data.height)
    IN IF fbo = 0
       THEN [sessions |-> g_uninitializedSTCaptureSessionMap, drawInfos |-> g_drawInfosMap,
             e |-> Done(glDeleteTextures(glGenFramebuffers(e, fbo), tex))]
       ELSE TM_HandOff(data, TM_StoreDrawInfo(g_drawInfosMap, glGenFramebuffers(e, fbo), drawInfo),
                       drawInfo, jni, outcome)

\* h, the maps and environment a handler leaves, with g_renderInfo as G
WithRenderInfo(h, G) == [sessions |-> h.sessions, drawInfos |-> h.drawInfos, G |-> G, e |-> h.e]

\* setupTextureNative from the result of checkGlobalRenderInfo on (lines
\* 310-395), c being what it returned: [sessions, drawInfos, G, e]
TM_Checked(data, c, tex, fboFailed, jni, outcome) ==
    IF ~c.ok
    THEN [sessions |-> g_uninitializedSTCaptureSessionMap, drawInfos |-> g_drawInfosMap, G |-> c.G,
          e |-> Done(c.e)]
    ELSE IF tex = 0
    THEN [sessions |-> g_uninitializedSTCaptureSessionMap, drawInfos |-> g_drawInfosMap, G |-> c.G,
          e |-> Done(glGenTextures(c.e, tex))]
    ELSE WithRenderInfo(TM_Framebuffer(data, glGenTextures(c.e, tex), tex, fboFailed, jni, outcome),
                        c.G)

\* setupTextureNative without its test of the method ID
TM_Setup_Unchecked(data, fail, tex, fboFailed, jni, outcome) ==
    TM_Checked(data, checkGlobalRenderInfo(g_renderInfo, OnThread(Begin(env), jni = "attached"), fail),
               tex, fboFailed, jni, outcome)

\* setupTextureNative(data): [sessions, drawInfos, G, e]
TM_Setup(data, fail, tex, fboFailed, jni, outcome) ==
    IF g_startCaptureSessionMethodId = 0
    THEN [sessions |-> g_uninitializedSTCaptureSessionMap, drawInfos |-> g_drawInfosMap,
          G |-> g_renderInfo,
          e |-> Done(Log(OnThread(Begin(env), jni = "attached"), "LOGE", "missing methodId"))]
    ELSE TM_Checked(data, checkGlobalRenderInfo(g_renderInfo, OnThread(Begin(env), jni = "attached"), fail),
                    tex, fboFailed, jni, outcome)

setupTextureNative(data, fail, tex, fboFailed, jni, outcome) ==
    /\ IsTM
    /\ \E x \in {TM_Setup(data, fail, tex, fboFailed, jni, outcome)} :
          /\ g_uninitializedSTCaptureSessionMap' = x.sessions
          /\ g_drawInfosMap' = x.drawInfos
          /\ g_renderInfo' = x.G
          /\ env' = End(x.e)
    /\ UNCHANGED <<threads, mutexes, rev, unityTarget, phase, g_javaVm, stVars, rendererStatics, g_startCaptureSessionMethodId,
                   g_registeredSurfaceTextureMap>>

\* OnRenderEvent with a null payload or an unknown event id: an error is logged
\* OnRenderEvent(eventId, data), the null check and the switch over the event
\* ID: [sessions, drawInfos, G, e]
TM_Dispatch(eventId, data, f, tex, fbComplete) ==
    IF data.null
    THEN [sessions |-> g_uninitializedSTCaptureSessionMap, drawInfos |-> g_drawInfosMap,
          G |-> g_renderInfo, e |-> Log(Begin(env), "LOGE", eventId)]
    ELSE CASE eventId = CREATE_GL_TEXTURE_EVENT ->
                 TM_Setup(data, f.fail, tex, f.fboFailed, f.jni, f.outcome)
           [] eventId = DESTROY_GL_TEXTURE_EVENT ->
                 [sessions |-> g_uninitializedSTCaptureSessionMap,
                  drawInfos |-> TM_Delete(g_drawInfosMap, Begin(env), data.nativeTexture).drawInfos,
                  G |-> g_renderInfo,
                  e |-> TM_Delete(g_drawInfosMap, Begin(env), data.nativeTexture).e]
           [] eventId = UPDATE_SURFACE_TEXTURE_EVENT ->
                 [sessions |-> g_uninitializedSTCaptureSessionMap, drawInfos |-> g_drawInfosMap,
                  G |-> g_renderInfo,
                  e |-> TM_Update(g_registeredSurfaceTextureMap, g_drawInfosMap, g_renderInfo,
                                  Begin(env), data.nativeTexture, fbComplete)]
           [] OTHER ->
                 [sessions |-> g_uninitializedSTCaptureSessionMap, drawInfos |-> g_drawInfosMap,
                  G |-> g_renderInfo, e |-> Log(Begin(env), "LOGE", eventId)]

TM_IgnoredEvent(eventId, data) ==
    /\ IsTM
    /\ data.null \/ eventId \notin {CREATE_GL_TEXTURE_EVENT, DESTROY_GL_TEXTURE_EVENT,
                                     UPDATE_SURFACE_TEXTURE_EVENT}
    /\ env' = End(TM_Dispatch(eventId, data, [fail |-> "none", fboFailed |-> FALSE, jni |-> "ok",
                                              outcome |-> "true"], 0, TRUE).e)
    /\ UNCHANGED <<threads, mutexes, rev, unityTarget, phase, g_javaVm, stVars, rendererStatics, tmVars>>

\* OnRenderEvent(eventId, data), one action per case of the switch
TextureFaults ==
    [fail : GlobalsFailures, fboFailed : {FALSE}, jni : {"ok"}, outcome : {"true"}]
    \cup [fail : {"none"}, fboFailed : {TRUE}, jni : {"ok"}, outcome : {"true"}]
    \cup [fail : {"none"}, fboFailed : {FALSE}, jni : JniOutcomes, outcome : {"true"}]
    \cup [fail : {"none"}, fboFailed : {FALSE}, jni : {"attached", "ok"}, outcome : {"true", "exception"}]
TM_Allocate ==
    \E data \in SetupPayloads, f \in TextureFaults, tex \in NewTextureNames :
        setupTextureNative(data, f.fail, tex, f.fboFailed, f.jni, f.outcome)
TM_UpdateEvent ==
    \E data \in TexturePayloads, fbComplete \in BOOLEAN : updateSurfaceTextureNative(data, fbComplete)
TM_Destroy == \E data \in TexturePayloads : deleteTextureNative(data)
TM_OnRenderEvent ==
    \/ TM_Allocate
    \/ TM_UpdateEvent
    \/ TM_Destroy
    \/ \E eventId \in EventIds, data \in {NullPayload, [null |-> FALSE]} : TM_IgnoredEvent(eventId, data)

\* ------------------------------------------------------------- the libraries
Init ==
    /\ rev \in {"ST", "TM"}
    /\ phase = "initial"
    /\ env = EnvInit
    /\ unityTarget \in UnityTargets
    /\ g_javaVm = 0
    /\ g_startCaptureSessionMtd = 0
    /\ g_registeredSessions = EmptyMap
    /\ g_renderers = EmptyMap
    /\ g_surfaceTextures = EmptyMap
    /\ _staticReferenceHolders = 0
    /\ _shaderProgram = 0
    /\ _vertexBufferObject = 0
    /\ _vertexArrayObject = 0
    /\ g_startCaptureSessionMethodId = 0
    /\ g_uninitializedSTCaptureSessionMap = EmptyMap
    /\ g_registeredSurfaceTextureMap = EmptyMap
    /\ g_drawInfosMap = EmptyMap
    /\ g_renderInfo = GlobalRenderInfo
    /\ threads = [t \in Threads |-> Idle]
    /\ mutexes = [m \in Mutexes |-> "none"]

ST_Next ==
    \/ \E outcome \in LoadOutcomes : ST_JNI_OnLoad(outcome)
    \/ \E getEnvOk \in BOOLEAN : ST_JNI_OnUnload(getEnvOk)
    \/ \E timestamp \in Timestamps, newRefOk \in BOOLEAN : registerCaptureSessionNative(timestamp, newRefOk)
    \/ \E timestamp \in Timestamps : tryDeregisterCaptureSessionNative(timestamp)
    \/ \E textureId \in TextureIds, newRefOk \in BOOLEAN : ST_registerSurfaceTextureForUpdates(textureId, newRefOk)
    \/ \E textureId \in TextureIds : ST_deregisterSurfaceTextureForUpdates(textureId)
    \/ ST_OnRenderEvent

TM_Next ==
    \/ \E outcome \in LoadOutcomes : TM_JNI_OnLoad(outcome)
    \/ \E getEnvOk \in BOOLEAN : TM_JNI_OnUnload(getEnvOk)
    \/ \E timeStamp \in Timestamps, newRefOk \in BOOLEAN : queueSurfaceTextureCaptureSession(timeStamp, newRefOk)
    \/ \E textureId \in TextureIds, newRefOk \in BOOLEAN : TM_registerSurfaceTextureForUpdates(textureId, newRefOk)
    \/ \E textureId \in TextureIds : TM_deregisterSurfaceTextureForUpdates(textureId)
    \/ TM_OnRenderEvent

Next == ST_Next \/ TM_Next

Spec == Init /\ [][Next]_vars

\* ------------------------------------------------------------- many streams
\* The STCaptureSessionHelper library serving one stream after another: a
\* session is registered under timestamp 1, ALLOCATE consumes it without a
\* failure and the driver names the new texture with the lowest name not in
\* use, DESTROY cleans up the Renderer registered last.
Max(S) == CHOOSE x \in S : \A y \in S : y <= x
NextTextureName == FreeName(env.textures, 1..MaxRenderers)

ManyInit ==
    /\ Init
    /\ rev = "ST"
    /\ unityTarget = [unityTexture |-> 1, width |-> 1, height |-> 1]

ManyAllocate ==
    /\ NextTextureName # 0
    /\ \E data \in {d \in SetupPayloads : d.timestamp = 1} :
          setupNativeTextures(data, "none", NextTextureName, "ok", "true")

ManyDestroy ==
    /\ DOMAIN g_renderers # {}
    /\ cleanupNativeData([null |-> FALSE, nativeTexture |-> Max(DOMAIN g_renderers)])

ManyNext ==
    \/ ST_JNI_OnLoad("ok")
    \/ registerCaptureSessionNative(1, TRUE)
    \/ ManyAllocate
    \/ ManyDestroy

ManyRenderersSpec == ManyInit /\ [][ManyNext]_vars

\* ------------------------------------------------------------- checkGlobalRenderInfo alone
\* ShaderManager::checkGlobalRenderInfo is a function of the ShaderManager
\* namespace: it is handed any GlobalRenderInfo.  Here g_renderInfo starts as
\* any struct whose handles name live GL objects, and the function is called
\* on it over and over.
GlobalRenderInfos ==
    [ program : {0} \cup SharedNames, vbo : {0, 1}, ebo : {0, 2}, vao : {0} \cup SharedNames,
      textureUniformLocation : {-1, 0}, resolutionUniformLocation : {-1, 1} ]
\* the GL driver holding exactly the objects G names
EnvHolding(G) ==
    [EnvInit EXCEPT !.programs = {G.program} \ {0},
                    !.buffers = {G.vbo, G.ebo} \ {0},
                    !.vertexArrays = {G.vao} \ {0}]

GlobalsInit ==
    /\ rev = "TM"
    /\ phase = "initial"
    /\ unityTarget = [unityTexture |-> 1, width |-> 1, height |-> 1]
    /\ g_renderInfo \in GlobalRenderInfos
    /\ env = EnvHolding(g_renderInfo)
    /\ g_javaVm = 0
    /\ g_startCaptureSessionMtd = 0
    /\ g_registeredSessions = EmptyMap
    /\ g_renderers = EmptyMap
    /\ g_surfaceTextures = EmptyMap
    /\ _staticReferenceHolders = 0
    /\ _shaderProgram = 0
    /\ _vertexBufferObject = 0
    /\ _vertexArrayObject = 0
    /\ g_startCaptureSessionMethodId = 0
    /\ g_uninitializedSTCaptureSessionMap = EmptyMap
    /\ g_registeredSurfaceTextureMap = EmptyMap
    /\ g_drawInfosMap = EmptyMap
    /\ threads = [t \in Threads |-> Idle]
    /\ mutexes = [m \in Mutexes |-> "none"]

CheckGlobals(fail) ==
    /\ \E c \in {checkGlobalRenderInfo(g_renderInfo, Begin(env), fail)} :
          /\ g_renderInfo' = c.G
          /\ env' = End(c.e)
    /\ UNCHANGED <<threads, mutexes, rev, unityTarget, phase, g_javaVm, stVars, rendererStatics,
                   g_startCaptureSessionMethodId, g_uninitializedSTCaptureSessionMap,
                   g_registeredSurfaceTextureMap, g_drawInfosMap>>

GlobalsNext == \E fail \in GlobalsFailures : CheckGlobals(fail)

GlobalsSpec == GlobalsInit /\ [][GlobalsNext]_vars

\* ------------------------------------------------------------- the libraries, thread by thread
\* The same functions, one action per stretch of a function between two
\* points where another thread can get in: taking a mutex, and the calls
\* into the JVM.  A std::scoped_lock takes all its mutexes or waits; every
\* lock of a function is released when the function returns.
Running(t, op, pc) == threads[t].op = op /\ threads[t].pc = pc
\* the environment as thread t sees it, and what of e is not the thread's own
Mine(t) == [env EXCEPT !.attached = threads[t].attached,
                       !.exceptionPending = threads[t].exceptionPending,
                       !.trace = threads[t].trace]
Shared(e) == [e EXCEPT !.attached = FALSE, !.exceptionPending = FALSE, !.trace = <<>>]
\* thread t goes on with locals l, having made the calls of e
Step(t, l, e) ==
    /\ threads' = [threads EXCEPT ![t] = [l EXCEPT !.attached = e.attached,
                                                   !.exceptionPending = e.exceptionPending,
                                                   !.trace = e.trace]]
    /\ env' = Shared(e)
\* std::lock_guard / std::scoped_lock over the mutexes ms
Acquire(t, ms) ==
    /\ \A m \in ms : mutexes[m] = "none"
    /\ mutexes' = [m \in DOMAIN mutexes |-> IF m \in ms THEN t ELSE mutexes[m]]
Holds(t, m) == m \in DOMAIN mutexes /\ mutexes[m] = t
\* the function returns: its locks go out of scope
Return(t) ==
    /\ threads[t].pc = "return"
    /\ threads' = [threads EXCEPT ![t] = [Idle EXCEPT !.attached = threads[t].attached,
                                                      !.exceptionPending = threads[t].exceptionPending]]
    /\ mutexes' = [m \in DOMAIN mutexes |-> IF mutexes[m] = t THEN "none" ELSE mutexes[m]]
    /\ UNCHANGED <<rev, unityTarget, phase, env, g_javaVm, stVars, rendererStatics, tmVars>>

\* the inputs of the threads: one timestamp, one texture ID Java registers
\* surface textures under, and the payload of the ALLOCATE a thread runs
ThreadTimestamps == {1}
ThreadTextureIds == {1}
PayloadOf(l) ==
    [null |-> FALSE, unityTexture |-> unityTarget.unityTexture,
     width |-> unityTarget.width, height |-> unityTarget.height, timestamp |-> l.timestamp]
\* the name glGenTextures yields: the lowest not in use, 0 when there is none
GeneratedTexture == FreeName(env.textures, TextureNames)

\* a function that locks nothing
NoMutexes == {}

\* ---- STCaptureSessionHelper.cpp
\* the mutexes each function locks
ST_SetupMutexes == {"g_registeredSessionsMtx", "g_renderersMtx"}
ST_RenderMutexes == {"g_surfaceTexturesMtx", "g_renderersMtx"}
ST_CleanupMutexes == {"g_renderersMtx"}
ST_SessionMutexes == {"g_registeredSessionsMtx"}
ST_SurfaceTextureMutexes == {"g_surfaceTexturesMtx"}
ST_UnloadMutexes == {"g_registeredSessionsMtx", "g_surfaceTexturesMtx", "g_renderersMtx"}

\* setupNativeTextures, line 193
setupNativeTextures_lock(t, timestamp) ==
    /\ IsST /\ t \in RenderThreads /\ threads[t].pc = "idle"
    /\ Acquire(t, ST_SetupMutexes)
    /\ threads' = [threads EXCEPT ![t] = [@ EXCEPT !.op = "ALLOCATE", !.pc = "find",
                                                    !.timestamp = timestamp]]
    /\ UNCHANGED <<rev, unityTarget, phase, env, g_javaVm, stVars, rendererStatics, tmVars>>

\* lines 194-221: [pc, renderers, S, texture, session, e]
ST_Find(sessions, renderers, S, e, data, fail, tex) ==
    IF ~Has(sessions, data.timestamp)
    THEN [pc |-> "return", renderers |-> renderers, S |-> S, texture |-> 0, session |-> 0,
          e |-> SetupDone(Log(e, "LOGE", "no session"), TRUE, FALSE, data.unityTexture, 0, FALSE)]
    ELSE LET i == initialize(Renderer(data.unityTexture, data.width, data.height), S, e, fail, tex)
         IN IF ~i.ok
            THEN [pc |-> "return", renderers |-> renderers, S |-> i.S, texture |-> 0, session |-> 0,
                  e |-> SetupDone(i.e, TRUE, FALSE, data.unityTexture, 0, FALSE)]
            ELSE IF Has(renderers, i.texture)
            THEN LET d == dispose(i.r, i.S, i.e)
                 IN [pc |-> "return", renderers |-> renderers, S |-> d.S, texture |-> 0, session |-> 0,
                     e |-> SetupDone(d.e, TRUE, FALSE, data.unityTexture, 0, FALSE)]
            ELSE [pc |-> "attach", renderers |-> Put(renderers, i.texture, i.r), S |-> i.S,
                  texture |-> i.texture, session |-> sessions[data.timestamp], e |-> i.e]

setupNativeTextures_find(t, fail, tex) ==
    /\ IsST /\ Running(t, "ALLOCATE", "find")
    /\ \E x \in {ST_Find(g_registeredSessions, g_renderers, Statics, Mine(t),
                         PayloadOf(threads[t]), fail, tex)} :
          /\ g_renderers' = x.renderers
          /\ SetStatics(x.S)
          /\ Step(t, [threads[t] EXCEPT !.pc = x.pc, !.texture = x.texture, !.session = x.session], x.e)
    /\ UNCHANGED <<mutexes, rev, unityTarget, phase, g_javaVm, g_startCaptureSessionMtd,
                   g_registeredSessions, g_surfaceTextures, tmVars>>

\* lines 223-233: [pc, renderers, S, shouldDetach, e]
ST_Attach(renderers, S, e, texture, data, javaVm, jni) ==
    LET a == AttachEnv(e, javaVm, jni)
    IN IF a.ok
       THEN [pc |-> "call", renderers |-> renderers, S |-> S, shouldDetach |-> a.shouldDetach, e |-> a.e]
       ELSE IF ~Has(renderers, texture)
       THEN [pc |-> "return", renderers |-> renderers, S |-> S, shouldDetach |-> FALSE,
             e |-> Flag(a.e, "use of a deleted Renderer")]
       ELSE LET d == dispose(renderers[texture], S, a.e)
            IN [pc |-> "return", renderers |-> Erase(renderers, texture), S |-> d.S,
                shouldDetach |-> FALSE,
                e |-> SetupDone(d.e, TRUE, FALSE, data.unityTexture, 0, FALSE)]

setupNativeTextures_attach(t, jni) ==
    /\ IsST /\ Running(t, "ALLOCATE", "attach")
    /\ \E x \in {ST_Attach(g_renderers, Statics, Mine(t), threads[t].texture,
                           PayloadOf(threads[t]), g_javaVm, jni)} :
          /\ g_renderers' = x.renderers
          /\ SetStatics(x.S)
          /\ Step(t, [threads[t] EXCEPT !.pc = x.pc, !.shouldDetach = x.shouldDetach], x.e)
    /\ UNCHANGED <<mutexes, rev, unityTarget, phase, g_javaVm, g_startCaptureSessionMtd,
                   g_registeredSessions, g_surfaceTextures, tmVars>>

\* line 235: the Java method returns (outcome), having called back into the
\* library or not
setupNativeTextures_call(t, outcome) ==
    /\ IsST /\ threads[t].op = "ALLOCATE" /\ threads[t].pc \in {"call", "inCallback"}
    /\ Step(t, [threads[t] EXCEPT !.pc = "called", !.result = (outcome = "true")],
            CallStartCaptureSession(Mine(t), threads[t].session, g_startCaptureSessionMtd,
                                    threads[t].texture, outcome))
    /\ UNCHANGED <<mutexes, rev, unityTarget, phase, g_javaVm, stVars, rendererStatics, tmVars>>

\* ST_AfterCall telling Unity it is done before it releases the session
ST_AfterCall_DoneFirst(sessions, e, l, data, javaVm) ==
    LET failed == e.exceptionPending \/ ~l.result
        e1 == IF failed THEN SetupDone(e, FALSE, FALSE, data.unityTexture, l.texture, TRUE)
              ELSE SetupDone(e, TRUE, TRUE, data.unityTexture, l.texture, TRUE)
        e2 == DeleteGlobalRef(e1, l.session)
        e3 == HasJNIException(e2)
    IN [sessions |-> Erase(sessions, data.timestamp),
        e |-> IF l.shouldDetach THEN DetachJNIEnv(e3, javaVm) ELSE e3]

\* lines 236-254, l the locals of the thread: [sessions, e]
ST_AfterCall(sessions, e, l, data, javaVm) ==
    LET e2 == DeleteGlobalRef(e, l.session)
        e3 == HasJNIException(e2)
        e4 == IF l.shouldDetach THEN DetachJNIEnv(e3, javaVm) ELSE e3
        failed == e2.exceptionPending \/ ~l.result
    IN [sessions |-> Erase(sessions, data.timestamp),
        e |-> IF failed THEN SetupDone(e4, FALSE, FALSE, data.unityTexture, l.texture, TRUE)
              ELSE SetupDone(e4, TRUE, TRUE, data.unityTexture, l.texture, TRUE)]

setupNativeTextures_finish(t) ==
    /\ IsST /\ Running(t, "ALLOCATE", "called")
    /\ \E x \in {ST_AfterCall(g_registeredSessions, Mine(t), threads[t], PayloadOf(threads[t]),
                              g_javaVm)} :
          /\ g_registeredSessions' = x.sessions
          /\ Step(t, [threads[t] EXCEPT !.pc = "return"], x.e)
    /\ UNCHANGED <<mutexes, rev, unityTarget, phase, g_javaVm, g_startCaptureSessionMtd, g_renderers,
                   g_surfaceTextures, rendererStatics, tmVars>>

\* renderNativeTextures, lines 271-285: [pc, native, e]
ST_Lookup(surfaceTextures, renderers, e, texture) ==
    IF ~Has(surfaceTextures, texture) \/ ~Has(renderers, texture)
    THEN [pc |-> "return", native |-> 0, e |-> TextureDone(Log(e, "LOGE", "not found"), texture, FALSE)]
    ELSE IF surfaceTextures[texture].native = 0
    THEN [pc |-> "return", native |-> 0, e |-> TextureDone(Log(e, "LOGE", "nonexistent"), texture, FALSE)]
    ELSE [pc |-> "render", native |-> surfaceTextures[texture].native, e |-> e]

renderNativeTextures_lookup(t, texture) ==
    /\ IsST /\ t \in RenderThreads /\ threads[t].pc = "idle"
    /\ Acquire(t, ST_RenderMutexes)
    /\ \E x \in {ST_Lookup(g_surfaceTextures, g_renderers, Mine(t), texture)} :
          Step(t, [threads[t] EXCEPT !.op = "UPDATE", !.pc = x.pc, !.texture = texture,
                                     !.native = x.native], x.e)
    /\ UNCHANGED <<rev, unityTarget, phase, g_javaVm, stVars, rendererStatics, tmVars>>

\* lines 287-288
renderNativeTextures_render(t, fbComplete) ==
    /\ IsST /\ Running(t, "UPDATE", "render")
    /\ \E e \in { IF ~Has(g_renderers, threads[t].texture)
                   THEN Flag(Mine(t), "use of a deleted Renderer")
                   ELSE LET x == render(g_renderers[threads[t].texture], Statics, Mine(t),
                                        threads[t].native, fbComplete)
                        IN TextureDone(x.e, threads[t].texture, x.ok) } :
          Step(t, [threads[t] EXCEPT !.pc = "return"], e)
    /\ UNCHANGED <<mutexes, rev, unityTarget, phase, g_javaVm, stVars, rendererStatics, tmVars>>

\* cleanupNativeData, lines 300-313
cleanupNativeData_locked(t, texture) ==
    /\ IsST /\ t \in RenderThreads /\ threads[t].pc = "idle"
    /\ Acquire(t, ST_CleanupMutexes)
    /\ \E x \in {ST_Cleanup(g_renderers, Statics, Mine(t), texture)} :
          /\ g_renderers' = x.renderers
          /\ SetStatics(x.S)
          /\ Step(t, [threads[t] EXCEPT !.op = "DESTROY", !.pc = "return", !.texture = texture], x.e)
    /\ UNCHANGED <<rev, unityTarget, phase, g_javaVm, g_startCaptureSessionMtd, g_registeredSessions,
                   g_surfaceTextures, tmVars>>

\* the four native methods, each under its lock_guard
registerCaptureSessionNative_locked(t, timestamp) ==
    /\ IsST /\ JavaCanCall /\ t \in JavaThreads /\ threads[t].pc = "idle"
    /\ Acquire(t, ST_SessionMutexes)
    /\ \E x \in {ST_RegisterSession(g_registeredSessions, Mine(t), timestamp, TRUE)} :
          /\ g_registeredSessions' = x.sessions
          /\ Step(t, [threads[t] EXCEPT !.op = "registerSession", !.pc = "return",
                                        !.timestamp = timestamp], x.e)
    /\ UNCHANGED <<rev, unityTarget, phase, g_javaVm, g_startCaptureSessionMtd, g_renderers,
                   g_surfaceTextures, rendererStatics, tmVars>>

tryDeregisterCaptureSessionNative_locked(t, timestamp) ==
    /\ IsST /\ JavaCanCall /\ t \in JavaThreads /\ threads[t].pc = "idle"
    /\ Acquire(t, ST_SessionMutexes)
    /\ \E x \in {ST_DeregisterSession(g_registeredSessions, Mine(t), timestamp)} :
          /\ g_registeredSessions' = x.sessions
          /\ Step(t, [threads[t] EXCEPT !.op = "deregisterSession", !.pc = "return",
                                        !.timestamp = timestamp], x.e)
    /\ UNCHANGED <<rev, unityTarget, phase, g_javaVm, g_startCaptureSessionMtd, g_renderers,
                   g_surfaceTextures, rendererStatics, tmVars>>

ST_registerSurfaceTextureForUpdates_locked(t, textureId) ==
    /\ IsST /\ JavaCanCall /\ t \in JavaThreads /\ threads[t].pc = "idle"
    /\ Acquire(t, ST_SurfaceTextureMutexes)
    /\ \E x \in {ST_RegisterSurfaceTexture(g_surfaceTextures, Mine(t), textureId, TRUE)} :
          /\ g_surfaceTextures' = x.map
          /\ Step(t, [threads[t] EXCEPT !.op = "registerSurfaceTexture", !.pc = "return",
                                        !.texture = textureId], x.e)
    /\ UNCHANGED <<rev, unityTarget, phase, g_javaVm, g_startCaptureSessionMtd, g_registeredSessions,
                   g_renderers, rendererStatics, tmVars>>

ST_deregisterSurfaceTextureForUpdates_locked(t, textureId) ==
    /\ IsST /\ JavaCanCall /\ t \in JavaThreads /\ threads[t].pc = "idle"
    /\ Acquire(t, ST_SurfaceTextureMutexes)
    /\ \E x \in {ST_DeregisterSurfaceTexture(g_surfaceTextures, Mine(t), textureId)} :
          /\ g_surfaceTextures' = x.map
          /\ Step(t, [threads[t] EXCEPT !.op = "deregisterSurfaceTexture", !.pc = "return",
                                        !.texture = textureId], x.e)
    /\ UNCHANGED <<rev, unityTarget, phase, g_javaVm, g_startCaptureSessionMtd, g_registeredSessions,
                   g_renderers, rendererStatics, tmVars>>

\* JNI_OnUnload, lines 78-85: the two globals are cleared before any lock
ST_JNI_OnUnload_begin(t, getEnvOk) ==
    /\ IsST /\ JavaCanCall /\ t \in JavaThreads /\ threads[t].pc = "idle"
    /\ g_startCaptureSessionMtd' = 0
    /\ g_javaVm' = 0
    /\ phase' = IF getEnvOk THEN phase ELSE "unloadAborted"
    /\ Step(t, [threads[t] EXCEPT !.op = "JNI_OnUnload", !.pc = IF getEnvOk THEN "lock" ELSE "return"],
            Log(Mine(t), "GetEnv", IF getEnvOk THEN "ok" ELSE "failed"))
    /\ UNCHANGED <<mutexes, rev, unityTarget, g_registeredSessions, g_renderers, g_surfaceTextures,
                   rendererStatics, tmVars>>

\* lines 87-108
ST_JNI_OnUnload_locked(t) ==
    /\ IsST /\ Running(t, "JNI_OnUnload", "lock")
    /\ Acquire(t, ST_UnloadMutexes)
    /\ phase' = "unloaded"
    /\ g_registeredSessions' = EmptyMap
    /\ g_surfaceTextures' = EmptyMap
    /\ g_renderers' = ST_UnloadRenderers(g_renderers)
    /\ Step(t, [threads[t] EXCEPT !.pc = "return"],
            ST_ReleaseSurfaceTextures(ST_ReleaseSessions(Mine(t))))
    /\ UNCHANGED <<rev, unityTarget, g_javaVm, g_startCaptureSessionMtd, rendererStatics, tmVars>>

ST_ThreadsNext ==
    \/ \E t \in RenderThreads, timestamp \in ThreadTimestamps : setupNativeTextures_lock(t, timestamp)
    \/ \E t \in RenderThreads : setupNativeTextures_find(t, "none", GeneratedTexture)
    \/ \E t \in RenderThreads, jni \in {"ok", "AttachFailed"} : setupNativeTextures_attach(t, jni)
    \/ \E t \in RenderThreads, outcome \in CallOutcomes : setupNativeTextures_call(t, outcome)
    \/ \E t \in RenderThreads : setupNativeTextures_finish(t)
    \/ \E t \in RenderThreads, texture \in ThreadTextureIds : renderNativeTextures_lookup(t, texture)
    \/ \E t \in RenderThreads, fbComplete \in BOOLEAN : renderNativeTextures_render(t, fbComplete)
    \/ \E t \in RenderThreads, texture \in ThreadTextureIds : cleanupNativeData_locked(t, texture)
    \/ \E t \in JavaThreads, timestamp \in ThreadTimestamps : registerCaptureSessionNative_locked(t, timestamp)
    \/ \E t \in JavaThreads, timestamp \in ThreadTimestamps : tryDeregisterCaptureSessionNative_locked(t, timestamp)
    \/ \E t \in JavaThreads, textureId \in ThreadTextureIds : ST_registerSurfaceTextureForUpdates_locked(t, textureId)
    \/ \E t \in JavaThreads, textureId \in ThreadTextureIds : ST_deregisterSurfaceTextureForUpdates_locked(t, textureId)
    \/ \E t \in JavaThreads, getEnvOk \in BOOLEAN : ST_JNI_OnUnload_begin(t, getEnvOk)
    \/ \E t \in JavaThreads : ST_JNI_OnUnload_locked(t)

\* ---- TextureManager.cpp
TM_DrawInfoMutexes == {"g_drawInfosMapMutex"}
TM_SessionMutexes == {"g_uninitializedSTCaptureSessionMapMutex"}
TM_SurfaceTextureMutexes == {"g_registeredSurfaceTextureMapMutex"}

\* setupTextureNative, lines 304-337, no lock held: [pc, G, texture, fbo, e]
TM_Prefix(G, e, methodId, fail, tex, fboFailed) ==
    IF methodId = 0
    THEN [pc |-> "return", G |-> G, texture |-> 0, fbo |-> 0,
          e |-> Done(Log(e, "LOGE", "missing methodId"))]
    ELSE LET c == checkGlobalRenderInfo(G, e, fail)
         IN IF ~c.ok THEN [pc |-> "return", G |-> c.G, texture |-> 0, fbo |-> 0, e |-> Done(c.e)]
            ELSE IF tex = 0
            THEN [pc |-> "return", G |-> c.G, texture |-> 0, fbo |-> 0,
                  e |-> Done(glGenTextures(c.e, tex))]
            ELSE LET e1 == glGenTextures(c.e, tex)
                     fbo == createFrameBuffer(e1, fboFailed)
                 IN IF fbo = 0
                    THEN [pc |-> "return", G |-> c.G, texture |-> 0, fbo |-> 0,
                          e |-> Done(glDeleteTextures(glGenFramebuffers(e1, fbo), tex))]
                    ELSE [pc |-> "store", G |-> c.G, texture |-> tex, fbo |-> fbo,
                          e |-> glGenFramebuffers(e1, fbo)]

setupTextureNative_prefix(t, timestamp, fail, tex, fboFailed) ==
    /\ IsTM /\ t \in RenderThreads /\ threads[t].pc = "idle"
    /\ \E x \in {TM_Prefix(g_renderInfo, Mine(t), g_startCaptureSessionMethodId, fail, tex, fboFailed)} :
          /\ g_renderInfo' = x.G
          /\ Step(t, [threads[t] EXCEPT !.op = "ALLOCATE", !.pc = x.pc, !.timestamp = timestamp,
                                        !.texture = x.texture, !.fbo = x.fbo], x.e)
    /\ UNCHANGED <<mutexes, rev, unityTarget, phase, g_javaVm, stVars, rendererStatics,
                   g_startCaptureSessionMethodId, g_uninitializedSTCaptureSessionMap,
                   g_registeredSurfaceTextureMap, g_drawInfosMap>>

\* the Draw Info a thread in setupTextureNative has filled in (lines 324-330)
DrawInfoOf(l) ==
    DrawInfo(l.texture, unityTarget.unityTexture, l.fbo, unityTarget.width, unityTarget.height)

\* lines 339-353
setupTextureNative_store(t) ==
    /\ IsTM /\ Running(t, "ALLOCATE", "store")
    /\ Acquire(t, TM_DrawInfoMutexes)
    /\ \E x \in {TM_StoreDrawInfo(g_drawInfosMap, Mine(t), DrawInfoOf(threads[t]))} :
          /\ g_drawInfosMap' = x.drawInfos
          /\ Step(t, [threads[t] EXCEPT !.pc = "find"], x.e)
    /\ UNCHANGED <<rev, unityTarget, phase, g_javaVm, stVars, rendererStatics,
                   g_startCaptureSessionMethodId, g_uninitializedSTCaptureSessionMap,
                   g_registeredSurfaceTextureMap, g_renderInfo>>

\* lines 356-379: [pc, drawInfos, session, shouldDetach, e]
TM_Find(sessions, drawInfos, e, drawInfo, timeStamp, javaVm, jni) ==
    IF ~Has(sessions, timeStamp)
    THEN LET u == TM_Rollback(drawInfos, Log(e, "LOGE", "no session"), drawInfo)
         IN [pc |-> "return", drawInfos |-> u.drawInfos, session |-> 0, shouldDetach |-> FALSE,
             e |-> Done(u.e)]
    ELSE LET a == TM_AttachEnv(e, javaVm, jni)
         IN IF ~a.ok
            THEN LET u == TM_Rollback(drawInfos, a.e, drawInfo)
                 IN [pc |-> "return", drawInfos |-> u.drawInfos, session |-> 0,
                     shouldDetach |-> FALSE, e |-> Done(u.e)]
            ELSE [pc |-> "call", drawInfos |-> drawInfos, session |-> sessions[timeStamp],
                  shouldDetach |-> a.shouldDetach, e |-> a.e]

setupTextureNative_find(t, jni) ==
    /\ IsTM /\ Running(t, "ALLOCATE", "find")
    /\ Acquire(t, TM_SessionMutexes)
    /\ \E x \in {TM_Find(g_uninitializedSTCaptureSessionMap, g_drawInfosMap, Mine(t),
                         DrawInfoOf(threads[t]), threads[t].timestamp, g_javaVm, jni)} :
          /\ g_drawInfosMap' = x.drawInfos
          /\ Step(t, [threads[t] EXCEPT !.pc = x.pc, !.session = x.session,
                                        !.shouldDetach = x.shouldDetach], x.e)
    /\ UNCHANGED <<rev, unityTarget, phase, g_javaVm, stVars, rendererStatics,
                   g_startCaptureSessionMethodId, g_uninitializedSTCaptureSessionMap,
                   g_registeredSurfaceTextureMap, g_renderInfo>>

\* line 381: the Java method returns (outcome), having called back into the
\* library or not
setupTextureNative_call(t, outcome) ==
    /\ IsTM /\ threads[t].op = "ALLOCATE" /\ threads[t].pc \in {"call", "inCallback"}
    /\ Step(t, [threads[t] EXCEPT !.pc = "called", !.result = (outcome # "exception")],
            CallStartCaptureSession(Mine(t), threads[t].session, g_startCaptureSessionMethodId,
                                    threads[t].texture, outcome))
    /\ UNCHANGED <<mutexes, rev, unityTarget, phase, g_javaVm, stVars, rendererStatics, tmVars>>

\* lines 382-395, l the locals of the thread: [sessions, e]
TM_AfterCall(sessions, e, l, javaVm) ==
    LET threw == e.exceptionPending
        e2 == CheckAndLogJNIException(e)
        e3 == IF threw THEN e2 ELSE DeleteGlobalRef(e2, l.session)
        e4 == IF l.shouldDetach THEN TM_DetachJNIEnv(e3, javaVm) ELSE e3
    IN [sessions |-> IF threw THEN sessions ELSE Erase(sessions, l.timestamp), e |-> Done(e4)]

setupTextureNative_finish(t) ==
    /\ IsTM /\ Running(t, "ALLOCATE", "called")
    /\ \E x \in {TM_AfterCall(g_uninitializedSTCaptureSessionMap, Mine(t), threads[t], g_javaVm)} :
          /\ g_uninitializedSTCaptureSessionMap' = x.sessions
          /\ Step(t, [threads[t] EXCEPT !.pc = "return"], x.e)
    /\ UNCHANGED <<mutexes, rev, unityTarget, phase, g_javaVm, stVars, rendererStatics,
                   g_startCaptureSessionMethodId, g_registeredSurfaceTextureMap, g_drawInfosMap,
                   g_renderInfo>>

\* updateSurfaceTextureNative, lines 261-267
updateSurfaceTextureNative_lookup(t, id) ==
    /\ IsTM /\ t \in RenderThreads /\ threads[t].pc = "idle"
    /\ Acquire(t, TM_SurfaceTextureMutexes)
    /\ IF Has(g_registeredSurfaceTextureMap, id)
       THEN Step(t, [threads[t] EXCEPT !.op = "UPDATE", !.pc = "updateTexImage", !.texture = id,
                        !.native = g_registeredSurfaceTextureMap[id].nativeSurfaceTexture],
                 Mine(t))
       ELSE Step(t, [threads[t] EXCEPT !.op = "UPDATE", !.pc = "return", !.texture = id],
                 Done(Log(Mine(t), "LOGE", "no SurfaceTexture")))
    /\ UNCHANGED <<rev, unityTarget, phase, g_javaVm, stVars, rendererStatics, tmVars>>

\* line 269
updateSurfaceTextureNative_updateTexImage(t) ==
    /\ IsTM /\ Running(t, "UPDATE", "updateTexImage")
    /\ Step(t, [threads[t] EXCEPT !.pc = "draw"],
            ASurfaceTexture_updateTexImage(Mine(t), threads[t].native))
    /\ UNCHANGED <<mutexes, rev, unityTarget, phase, g_javaVm, stVars, rendererStatics, tmVars>>

\* lines 272-283
updateSurfaceTextureNative_draw(t, fbComplete) ==
    /\ IsTM /\ Running(t, "UPDATE", "draw")
    /\ Acquire(t, TM_DrawInfoMutexes)
    /\ Step(t, [threads[t] EXCEPT !.pc = "return"],
            IF ~Has(g_drawInfosMap, threads[t].texture)
            THEN Done(Log(Mine(t), "LOGE", "no DrawInfo"))
            ELSE Done(renderFrame(g_renderInfo, g_drawInfosMap[threads[t].texture], Mine(t),
                                  fbComplete)))
    /\ UNCHANGED <<rev, unityTarget, phase, g_javaVm, stVars, rendererStatics, tmVars>>

\* deleteTextureNative, lines 288-300
deleteTextureNative_locked(t, textureId) ==
    /\ IsTM /\ t \in RenderThreads /\ threads[t].pc = "idle"
    /\ Acquire(t, TM_DrawInfoMutexes)
    /\ \E x \in {TM_Delete(g_drawInfosMap, Mine(t), textureId)} :
          /\ g_drawInfosMap' = x.drawInfos
          /\ Step(t, [threads[t] EXCEPT !.op = "DESTROY", !.pc = "return", !.texture = textureId], x.e)
    /\ UNCHANGED <<rev, unityTarget, phase, g_javaVm, stVars, rendererStatics,
                   g_startCaptureSessionMethodId, g_uninitializedSTCaptureSessionMap,
                   g_registeredSurfaceTextureMap, g_renderInfo>>

\* queueSurfaceTextureCaptureSession, lines 174-178: NewGlobalRef, no lock held
queueSurfaceTextureCaptureSession_ref(t, timeStamp) ==
    /\ IsTM /\ JavaCanCall /\ t \in JavaThreads /\ threads[t].pc = "idle"
    /\ IF NextObject(env) = 0
       THEN Step(t, [threads[t] EXCEPT !.op = "queueSession", !.pc = "return",
                                       !.timestamp = timeStamp], NewGlobalRefFailed(Mine(t)))
       ELSE Step(t, [threads[t] EXCEPT !.op = "queueSession", !.pc = "lock", !.timestamp = timeStamp,
                                       !.session = NextObject(env)], NewGlobalRef(Mine(t)))
    /\ UNCHANGED <<mutexes, rev, unityTarget, phase, g_javaVm, stVars, rendererStatics, tmVars>>

\* lines 180-190
queueSurfaceTextureCaptureSession_locked(t) ==
    /\ IsTM /\ Running(t, "queueSession", "lock")
    /\ Acquire(t, TM_SessionMutexes)
    /\ g_uninitializedSTCaptureSessionMap' =
          Put(g_uninitializedSTCaptureSessionMap, threads[t].timestamp, threads[t].session)
    /\ Step(t, [threads[t] EXCEPT !.pc = "return"],
            IF Has(g_uninitializedSTCaptureSessionMap, threads[t].timestamp)
            THEN DeleteGlobalRef(Mine(t), g_uninitializedSTCaptureSessionMap[threads[t].timestamp])
            ELSE Mine(t))
    /\ UNCHANGED <<rev, unityTarget, phase, g_javaVm, stVars, rendererStatics,
                   g_startCaptureSessionMethodId, g_registeredSurfaceTextureMap, g_drawInfosMap,
                   g_renderInfo>>

\* registerSurfaceTextureForUpdates, lines 197-201: NewGlobalRef, no lock held
TM_registerSurfaceTextureForUpdates_ref(t, textureId) ==
    /\ IsTM /\ JavaCanCall /\ t \in JavaThreads /\ threads[t].pc = "idle"
    /\ IF NextObject(env) = 0
       THEN Step(t, [threads[t] EXCEPT !.op = "registerSurfaceTexture", !.pc = "return",
                                       !.texture = textureId], NewGlobalRefFailed(Mine(t)))
       ELSE Step(t, [threads[t] EXCEPT !.op = "registerSurfaceTexture", !.pc = "lock",
                                       !.texture = textureId, !.session = NextObject(env)],
                 NewGlobalRef(Mine(t)))
    /\ UNCHANGED <<mutexes, rev, unityTarget, phase, g_javaVm, stVars, rendererStatics, tmVars>>

\* lines 203-218, globalRef the reference made before the lock: [map, e]
TM_PutSurfaceTexture(map, e, textureId, globalRef) ==
    LET e1 == IF Has(map, textureId)
              THEN DeleteGlobalRef(ASurfaceTexture_release(e, map[textureId].nativeSurfaceTexture),
                                   map[textureId].jniSurfaceTexture)
              ELSE e
    IN [map |-> Put(map, textureId,
                    [nativeSurfaceTexture |-> globalRef, jniSurfaceTexture |-> globalRef]),
        e |-> ASurfaceTexture_fromSurfaceTexture(e1, globalRef)]

TM_registerSurfaceTextureForUpdates_locked(t) ==
    /\ IsTM /\ Running(t, "registerSurfaceTexture", "lock")
    /\ Acquire(t, TM_SurfaceTextureMutexes)
    /\ \E x \in {TM_PutSurfaceTexture(g_registeredSurfaceTextureMap, Mine(t), threads[t].texture,
                                      threads[t].session)} :
          /\ g_registeredSurfaceTextureMap' = x.map
          /\ Step(t, [threads[t] EXCEPT !.pc = "return"], x.e)
    /\ UNCHANGED <<rev, unityTarget, phase, g_javaVm, stVars, rendererStatics,
                   g_startCaptureSessionMethodId, g_uninitializedSTCaptureSessionMap, g_drawInfosMap,
                   g_renderInfo>>

\* deregisterSurfaceTextureForUpdates, lines 225-236
TM_deregisterSurfaceTextureForUpdates_locked(t, textureId) ==
    /\ IsTM /\ JavaCanCall /\ t \in JavaThreads /\ threads[t].pc = "idle"
    /\ Acquire(t, TM_SurfaceTextureMutexes)
    /\ \E x \in {TM_DeregisterSurfaceTexture(g_registeredSurfaceTextureMap, Mine(t), textureId)} :
          /\ g_registeredSurfaceTextureMap' = x.map
          /\ Step(t, [threads[t] EXCEPT !.op = "deregisterSurfaceTexture", !.pc = "return",
                                        !.texture = textureId], x.e)
    /\ UNCHANGED <<rev, unityTarget, phase, g_javaVm, stVars, rendererStatics,
                   g_startCaptureSessionMethodId, g_uninitializedSTCaptureSessionMap, g_drawInfosMap,
                   g_renderInfo>>

\* JNI_OnUnload, lines 88-95: the two globals are cleared before any lock
TM_JNI_OnUnload_begin(t, getEnvOk) ==
    /\ IsTM /\ JavaCanCall /\ t \in JavaThreads /\ threads[t].pc = "idle"
    /\ g_startCaptureSessionMethodId' = 0
    /\ g_javaVm' = 0
    /\ phase' = IF getEnvOk THEN phase ELSE "unloadAborted"
    /\ Step(t, [threads[t] EXCEPT !.op = "JNI_OnUnload", !.pc = IF getEnvOk THEN "lock1" ELSE "return"],
            Log(Mine(t), "GetEnv", IF getEnvOk THEN "ok" ELSE "failed"))
    /\ UNCHANGED <<mutexes, rev, unityTarget, stVars, rendererStatics,
                   g_uninitializedSTCaptureSessionMap, g_registeredSurfaceTextureMap, g_drawInfosMap,
                   g_renderInfo>>

\* lines 97-103
TM_JNI_OnUnload_lock1(t) ==
    /\ IsTM /\ Running(t, "JNI_OnUnload", "lock1")
    /\ Acquire(t, TM_SessionMutexes)
    /\ g_uninitializedSTCaptureSessionMap' = EmptyMap
    /\ Step(t, [threads[t] EXCEPT !.pc = "lock2"], TM_ReleaseSessions(Mine(t)))
    /\ UNCHANGED <<rev, unityTarget, phase, g_javaVm, stVars, rendererStatics,
                   g_startCaptureSessionMethodId, g_registeredSurfaceTextureMap, g_drawInfosMap,
                   g_renderInfo>>

\* lines 105-112
TM_JNI_OnUnload_lock2(t) ==
    /\ IsTM /\ Running(t, "JNI_OnUnload", "lock2")
    /\ Acquire(t, TM_SurfaceTextureMutexes)
    /\ phase' = "unloaded"
    /\ g_registeredSurfaceTextureMap' = EmptyMap
    /\ g_drawInfosMap' = TM_UnloadDrawInfos(g_drawInfosMap)
    /\ Step(t, [threads[t] EXCEPT !.pc = "return"], TM_ReleaseSurfaceTextures(Mine(t)))
    /\ UNCHANGED <<rev, unityTarget, g_javaVm, stVars, rendererStatics,
                   g_startCaptureSessionMethodId, g_uninitializedSTCaptureSessionMap, g_renderInfo>>

TM_ThreadsNext ==
    \/ \E t \in RenderThreads, timestamp \in ThreadTimestamps :
          setupTextureNative_prefix(t, timestamp, "none", GeneratedTexture, FALSE)
    \/ \E t \in RenderThreads : setupTextureNative_store(t)
    \/ \E t \in RenderThreads, jni \in {"ok", "AttachFailed"} : setupTextureNative_find(t, jni)
    \/ \E t \in RenderThreads, outcome \in {"true", "exception"} : setupTextureNative_call(t, outcome)
    \/ \E t \in RenderThreads : setupTextureNative_finish(t)
    \/ \E t \in RenderThreads, id \in ThreadTextureIds : updateSurfaceTextureNative_lookup(t, id)
    \/ \E t \in RenderThreads : updateSurfaceTextureNative_updateTexImage(t)
    \/ \E t \in RenderThreads, fbComplete \in BOOLEAN : updateSurfaceTextureNative_draw(t, fbComplete)
    \/ \E t \in RenderThreads, textureId \in ThreadTextureIds : deleteTextureNative_locked(t, textureId)
    \/ \E t \in JavaThreads, timeStamp \in ThreadTimestamps : queueSurfaceTextureCaptureSession_ref(t, timeStamp)
    \/ \E t \in JavaThreads : queueSurfaceTextureCaptureSession_locked(t)
    \/ \E t \in JavaThreads, textureId \in ThreadTextureIds : TM_registerSurfaceTextureForUpdates_ref(t, textureId)
    \/ \E t \in JavaThreads : TM_registerSurfaceTextureForUpdates_locked(t)
    \/ \E t \in JavaThreads, textureId \in ThreadTextureIds : TM_deregisterSurfaceTextureForUpdates_locked(t, textureId)
    \/ \E t \in JavaThreads, getEnvOk \in BOOLEAN : TM_JNI_OnUnload_begin(t, getEnvOk)
    \/ \E t \in JavaThreads : TM_JNI_OnUnload_lock1(t)
    \/ \E t \in JavaThreads : TM_JNI_OnUnload_lock2(t)

\* ---- both libraries, their threads interleaved.  JNI_OnLoad runs before
\* any other thread is inside the library.
\* ---- startCaptureSession, the Java method of the session
\* It runs on the render thread, inside setupNativeTextures (line 235) or
\* setupTextureNative (line 381), and may call a native method of the library
\* before it returns: registerSurfaceTextureForUpdates for the texture it was
\* handed, or a method that locks the mutex of the pending sessions
\* (tryDeregisterCaptureSessionNative, registerCaptureSessionNative,
\* queueSurfaceTextureCaptureSession).  The TextureManager methods create
\* their global reference before they lock.
SurfaceTextureMutexes == IF IsST THEN ST_SurfaceTextureMutexes ELSE TM_SurfaceTextureMutexes
startCaptureSession_reenters(t, entry) ==
    /\ Running(t, "ALLOCATE", "call")
    /\ IF IsST THEN Step(t, [threads[t] EXCEPT !.pc = entry], Mine(t))
       ELSE IF NextObject(env) = 0
       THEN Step(t, [threads[t] EXCEPT !.pc = "inCallback"], NewGlobalRefFailed(Mine(t)))
       ELSE Step(t, [threads[t] EXCEPT !.pc = entry, !.native = NextObject(env)],
                 NewGlobalRef(Mine(t)))
    /\ UNCHANGED <<mutexes, rev, unityTarget, phase, g_javaVm, stVars, rendererStatics, tmVars>>

\* registerSurfaceTextureForUpdates called by the Java method: it locks the
\* mutex of the surface textures, which the ALLOCATE around it does not hold
reentrant_registerSurfaceTextureForUpdates_locked(t) ==
    /\ Running(t, "ALLOCATE", "reenterSurfaceTexture")
    /\ Acquire(t, SurfaceTextureMutexes)
    /\ IF IsST
       THEN /\ \E x \in {ST_RegisterSurfaceTexture(g_surfaceTextures, Mine(t), threads[t].texture, TRUE)} :
                  /\ g_surfaceTextures' = x.map
                  /\ Step(t, [threads[t] EXCEPT !.pc = "reentered"], x.e)
            /\ UNCHANGED g_registeredSurfaceTextureMap
       ELSE /\ \E x \in {TM_PutSurfaceTexture(g_registeredSurfaceTextureMap, Mine(t),
                                              threads[t].texture, threads[t].native)} :
                  /\ g_registeredSurfaceTextureMap' = x.map
                  /\ Step(t, [threads[t] EXCEPT !.pc = "reentered"], x.e)
            /\ UNCHANGED g_surfaceTextures
    /\ UNCHANGED <<rev, unityTarget, phase, g_javaVm, g_startCaptureSessionMtd, g_registeredSessions,
                   g_renderers, rendererStatics, g_startCaptureSessionMethodId,
                   g_uninitializedSTCaptureSessionMap, g_drawInfosMap, g_renderInfo>>

\* it returns to the Java method: its lock_guard goes out of scope, the locks
\* of the ALLOCATE stay
reentrant_return(t) ==
    /\ Running(t, "ALLOCATE", "reentered")
    /\ threads' = [threads EXCEPT ![t] = [@ EXCEPT !.pc = "inCallback"]]
    /\ mutexes' = [m \in DOMAIN mutexes |->
                      IF m \in SurfaceTextureMutexes /\ mutexes[m] = t THEN "none" ELSE mutexes[m]]
    /\ UNCHANGED <<rev, unityTarget, phase, env, g_javaVm, stVars, rendererStatics, tmVars>>

\* A method called by the Java method that locks the mutex of the pending
\* sessions has no step: the thread holds that std::mutex since line 193
\* (line 355), and lock() on a std::mutex its caller owns does not return.
ReentrantNext ==
    \/ \E t \in RenderThreads, entry \in {"reenterSurfaceTexture", "reenterSession"} :
          startCaptureSession_reenters(t, entry)
    \/ \E t \in RenderThreads : reentrant_registerSurfaceTextureForUpdates_locked(t)
    \/ \E t \in RenderThreads : reentrant_return(t)

ThreadsInit ==
    /\ Init
    /\ unityTarget = [unityTexture |-> 1, width |-> 1, height |-> 1]

ThreadsNext ==
    \/ ST_JNI_OnLoad("ok")
    \/ TM_JNI_OnLoad("ok")
    \/ ST_ThreadsNext
    \/ TM_ThreadsNext
    \/ ReentrantNext
    \/ \E t \in Threads : Return(t)

ThreadsSpec == ThreadsInit /\ [][ThreadsNext]_vars

\* ------------------------------------------------------------- properties
\* The stores of the library that runs: pending sessions, and for every
\* registered surface texture its global reference and its native handle.
SessionStore == IF IsST THEN g_registeredSessions ELSE g_uninitializedSTCaptureSessionMap
SurfaceKeys == IF IsST THEN DOMAIN g_surfaceTextures ELSE DOMAIN g_registeredSurfaceTextureMap
SurfaceRef(k) == IF IsST THEN g_surfaceTextures[k].java
                 ELSE g_registeredSurfaceTextureMap[k].jniSurfaceTexture
SurfaceNative(k) == IF IsST THEN g_surfaceTextures[k].native
                    ELSE g_registeredSurfaceTextureMap[k].nativeSurfaceTexture
SurfaceRefs == {SurfaceRef(k) : k \in SurfaceKeys}
SurfaceNatives == {SurfaceNative(k) : k \in SurfaceKeys}
StoredRefs == Range(SessionStore) \cup SurfaceRefs
\* the per-stream store: texture IDs with a Renderer / a DrawInfo
StreamKeys == IF IsST THEN DOMAIN g_renderers ELSE DOMAIN g_drawInfosMap

SessionReplaced(old, map, e, t) ==
    /\ Calls(e, "DeleteGlobalRef") = 1 /\ CallsWith(e, "DeleteGlobalRef", old) = 1
    /\ old \notin e.globalRefs
    /\ Has(map, t) /\ map[t] # old /\ map[t] \in e.globalRefs
    /\ Calls(e, "NewGlobalRef") = 1 /\ CallsWith(e, "NewGlobalRef", map[t]) = 1
    /\ e.globalRefs = (env.globalRefs \ {old}) \cup {map[t]}
    /\ e.misuse = {}

\* A registration was refused: FALSE returned, no reference created or
\* deleted, the store as before.
RegistrationRefused(ret, map, before, e) ==
    /\ ret = FALSE /\ map = before
    /\ Calls(e, "NewGlobalRef") = 0 /\ Calls(e, "DeleteGlobalRef") = 0
    /\ Calls(e, "ASurfaceTexture_release") = 0
    /\ Calls(e, "ASurfaceTexture_fromSurfaceTexture") = 0
    /\ e.globalRefs = env.globalRefs /\ e.natives = env.natives

SurfaceReplaced(oldRef, oldNative, ref, native, e) ==
    /\ Calls(e, "ASurfaceTexture_release") = 1
    /\ CallsWith(e, "ASurfaceTexture_release", oldNative) = 1
    /\ Calls(e, "DeleteGlobalRef") = 1 /\ CallsWith(e, "DeleteGlobalRef", oldRef) = 1
    /\ oldRef \notin e.globalRefs /\ oldNative \notin e.natives
    /\ ref # oldRef /\ ref # 0 /\ native = ref
    /\ Calls(e, "NewGlobalRef") = 1 /\ CallsWith(e, "NewGlobalRef", ref) = 1
    /\ Calls(e, "ASurfaceTexture_fromSurfaceTexture") = 1
    /\ CallsWith(e, "ASurfaceTexture_fromSurfaceTexture", native) = 1
    /\ ref \in e.globalRefs /\ native \in e.natives
    /\ e.misuse = {}

DeregisteredSurface(k) ==
    IF IsST THEN ST_DeregisterSurfaceTexture(g_surfaceTextures, Begin(env), k).e
    ELSE TM_DeregisterSurfaceTexture(g_registeredSurfaceTextureMap, Begin(env), k).e
\* The environment after a JNI_OnUnload that got its JNIEnv.
Unloaded == IF IsST THEN ST_Unload(Begin(env), TRUE) ELSE TM_Unload(Begin(env), TRUE)

UnloadAborted == IF IsST THEN ST_Unload(Begin(env), FALSE) ELSE TM_Unload(Begin(env), FALSE)
\* The inputs of one ALLOCATE and what the handler returns for them.
Faults == IF IsST THEN SetupFaults ELSE TextureFaults
Allocated(data, f, tex) ==
    IF IsST THEN ST_Setup(data, f.fail, tex, f.jni, f.outcome)
    ELSE TM_Setup(data, f.fail, tex, f.fboFailed, f.jni, f.outcome)
\* The per-stream store a handler returns.
StreamStoreOf(x) == IF IsST THEN x.renderers ELSE x.drawInfos
StreamStore == IF IsST THEN g_renderers ELSE g_drawInfosMap
\* The environment after an UPDATE for texture t on the stores as they are.
Updated(t, fbComplete) ==
    IF IsST THEN ST_Render(g_surfaceTextures, g_renderers, Statics, Begin(env), t, fbComplete)
    ELSE TM_Update(g_registeredSurfaceTextureMap, g_drawInfosMap, g_renderInfo, Begin(env), t, fbComplete)
\* The arguments of the onDoneCallback calls a handler made, and its draw calls.
DoneArgs(e) == {e.trace[i].arg : i \in {j \in 1..Len(e.trace) : e.trace[j].call = "onDoneCallback"}}
Draws(e) == Calls(e, "glDrawArrays") + Calls(e, "glDrawElements")

C6_UnloadEmptiesStreamStore ==
    phase = "unloaded" => StreamKeys = {}

\* C7 as stated, the texture ID: every startCaptureSession call an ALLOCATE for
\* a registered timestamp makes carries a non-zero texture ID.
C7_HandsOffNonZeroTexture ==
    \A data \in SetupPayloads, f \in Faults, tex \in NewTextureNames :
        Has(SessionStore, data.timestamp) =>
            \A i \in 1..Len(Allocated(data, f, tex).e.trace) :
                Allocated(data, f, tex).e.trace[i].call = "startCaptureSession"
                    => Allocated(data, f, tex).e.trace[i].arg.textureId # 0
\* An ALLOCATE that returned x made no JNI callback and left the live
\* textures and framebuffers, the per-stream store and the pending sessions
\* as they were.
NothingHandedOffOrLeaked(x) ==
    /\ Calls(x.e, "startCaptureSession") = 0
    /\ x.e.textures = env.textures /\ x.e.framebuffers = env.framebuffers
    /\ StreamStoreOf(x) = StreamStore
    /\ x.sessions = SessionStore /\ x.e.globalRefs = env.globalRefs

CanDraw(t) == IsTM => RenderFrameValid(g_renderInfo, g_drawInfosMap[t])

Destroyed(t) ==
    IF IsST THEN ST_Cleanup(g_renderers, Statics, Begin(env), t)
    ELSE TM_Delete(g_drawInfosMap, Begin(env), t)
FramebufferOf(t) == IF IsST THEN g_renderers[t].frameBufferObject ELSE g_drawInfosMap[t].fbo
SourceTextureOf(t) == IF IsST THEN g_renderers[t].sourceTexture ELSE g_drawInfosMap[t].sourceTextureId
DestroyedAgain(x, t) ==
    IF IsST THEN ST_Cleanup(x.renderers, x.S, Begin(x.e), t)
    ELSE TM_Delete(x.drawInfos, Begin(x.e), t)
UpdatedAfter(x, t, fbComplete) ==
    IF IsST THEN ST_Render(g_surfaceTextures, x.renderers, x.S, Begin(x.e), t, fbComplete)
    ELSE TM_Update(g_registeredSurfaceTextureMap, x.drawInfos, g_renderInfo, Begin(x.e), t, fbComplete)
\* the glDelete* calls on a name other than 0
Deletions(e, call) == Calls(e, call) - CallsWith(e, call, 0)

\* C10: a DESTROY for a texture ID with a per-stream entry deletes the
\* entry's framebuffer and its source texture once each, both live until
\* then, removes the entry and calls onDoneCallback once; a second DESTROY
\* and a later UPDATE for the ID delete nothing and draw nothing.
C10_DestroyReleasesEntryOnce ==
    \A t \in StreamKeys :
        /\ ~Has(StreamStoreOf(Destroyed(t)), t)
        /\ DOMAIN StreamStoreOf(Destroyed(t)) = StreamKeys \ {t}
        /\ SourceTextureOf(t) = t
        /\ Deletions(Destroyed(t).e, "glDeleteFramebuffers") = IF FramebufferOf(t) = 0 THEN 0 ELSE 1
        /\ Deletions(Destroyed(t).e, "glDeleteTextures") = IF t = 0 THEN 0 ELSE 1
        /\ FramebufferOf(t) # 0 =>
              /\ FramebufferOf(t) \in env.framebuffers
              /\ CallsWith(Destroyed(t).e, "glDeleteFramebuffers", FramebufferOf(t)) = 1
              /\ FramebufferOf(t) \notin Destroyed(t).e.framebuffers
        /\ t # 0 =>
              /\ t \in env.textures
              /\ CallsWith(Destroyed(t).e, "glDeleteTextures", t) = 1
              /\ t \notin Destroyed(t).e.textures
        /\ IsTM => FramebufferOf(t) # 0 /\ t # 0
        /\ Destroyed(t).e.misuse = env.misuse
        /\ Calls(Destroyed(t).e, "onDoneCallback") = 1
        /\ IsST => DoneArgs(Destroyed(t).e) = {[textureId |-> t, success |-> TRUE]}
        /\ StreamStoreOf(DestroyedAgain(Destroyed(t), t)) = StreamStoreOf(Destroyed(t))
        /\ Calls(DestroyedAgain(Destroyed(t), t).e, "glDeleteFramebuffers") = 0
        /\ Calls(DestroyedAgain(Destroyed(t), t).e, "glDeleteTextures") = 0
        /\ IsST => DoneArgs(DestroyedAgain(Destroyed(t), t).e) = {[textureId |-> t, success |-> FALSE]}
        /\ \A fbComplete \in BOOLEAN : Draws(UpdatedAfter(Destroyed(t), t, fbComplete)) = 0

\* a Renderer with a framebuffer and a source texture, both deleted by DESTROY,
\* while another Renderer stays
C10_Witness ==
    /\ IsST
    /\ \E t \in StreamKeys :
          /\ t # 0 /\ FramebufferOf(t) # 0
          /\ StreamKeys # {t}
          /\ CallsWith(Destroyed(t).e, "glDeleteFramebuffers", FramebufferOf(t)) = 1
          /\ CallsWith(Destroyed(t).e, "glDeleteTextures", t) = 1
          /\ ~Has(Destroyed(t).renderers, t)
\* The step of a DESTROY event for texture ID t.
DestroyStep(t) ==
    IF IsST THEN cleanupNativeData([null |-> FALSE, nativeTexture |-> t])
    ELSE deleteTextureNative([null |-> FALSE, nativeTexture |-> t])

\* C11 as stated: after a DESTROY event for texture ID t the surface-texture
\* store has no entry for t.
C11_DestroyRemovesSurfaceTexture ==
    [][\A t \in TextureIds : DestroyStep(t) => t \notin SurfaceKeys']_vars

\* C11 amended: a DESTROY event for texture ID t deletes the GL texture and
\* the framebuffer of the per-stream entry of t and removes that entry; it
\* leaves the surface-texture store, every native surface-texture handle and
\* every global reference as they were.
C11_DestroyKeepsSurfaceTexture ==
    [][\A t \in TextureIds : DestroyStep(t) =>
          /\ UNCHANGED <<g_surfaceTextures, g_registeredSurfaceTextureMap>>
          /\ UNCHANGED <<g_registeredSessions, g_uninitializedSTCaptureSessionMap>>
          /\ env'.natives = env.natives /\ env'.globalRefs = env.globalRefs
          /\ t \in StreamKeys =>
                /\ StreamKeys' = StreamKeys \ {t}
                /\ env'.textures = env.textures \ {t}
                /\ env'.framebuffers = env.framebuffers \ {FramebufferOf(t)}]_vars

\* a texture ID with a surface texture and a per-stream entry, whose DESTROY
\* removes the latter and leaves handle and reference live
C11_Witness ==
    \E t \in SurfaceKeys \cap StreamKeys :
        /\ ~Has(StreamStoreOf(Destroyed(t)), t)
        /\ SurfaceNative(t) \in Destroyed(t).e.natives
        /\ SurfaceRef(t) \in Destroyed(t).e.globalRefs
        /\ Calls(Destroyed(t).e, "ASurfaceTexture_release") = 0
\* C12 as stated, the aborted operation: an UPDATE for a texture ID that is
\* missing from the surface-texture store or from the per-stream store
\* performs no updateTexImage and no draw call, leaves handles and references
\* alone and calls onDoneCallback once.
C12_UpdateMissDoesNothing ==
    \A t \in TextureIds, fbComplete \in BOOLEAN :
        t \notin SurfaceKeys \/ t \notin StreamKeys =>
            /\ Calls(Updated(t, fbComplete), "ASurfaceTexture_updateTexImage") = 0
            /\ Draws(Updated(t, fbComplete)) = 0
            /\ Updated(t, fbComplete).natives = env.natives
            /\ Updated(t, fbComplete).globalRefs = env.globalRefs
            /\ Calls(Updated(t, fbComplete), "onDoneCallback") = 1
\* The ALLOCATE with inputs (data, f, tex) made the startCaptureSession call
\* and the hand-off failed: the method threw or returned false.
HandOffFailed(data, f, tex) ==
    /\ Has(SessionStore, data.timestamp)
    /\ f.outcome # "true"
    /\ Calls(Allocated(data, f, tex).e, "startCaptureSession") = 1

\* C13 as stated: when the hand-off of an ALLOCATE fails, the pending-session
\* store and the per-stream store hold what they held before the event, and
\* every live global reference is still stored.
C13_FailedHandOffRollsBack ==
    \A data \in SetupPayloads, f \in Faults, tex \in NewTextureNames :
        HandOffFailed(data, f, tex) =>
            /\ Allocated(data, f, tex).sessions = SessionStore
            /\ StreamStoreOf(Allocated(data, f, tex)) = StreamStore
            /\ Allocated(data, f, tex).e.globalRefs = env.globalRefs
\* The stage at which the setupNativeTextures call with inputs (data, f, tex)
\* ends, and the three flags it passes to onDoneCallback.
Stage(data, f, tex) ==
    IF ~Has(g_registeredSessions, data.timestamp) THEN "no matching session found"
    ELSE IF ~initialize(Renderer(data.unityTexture, data.width, data.height), Statics,
                        OnThread(Begin(env), f.jni = "attached"), f.fail, tex).ok
    THEN "GL setup failed"
    ELSE IF Calls(ST_Setup(data, f.fail, tex, f.jni, f.outcome).e, "startCaptureSession") = 0
    THEN "not handed off"
    ELSE IF f.outcome # "true" THEN "JNI hand-off failed"
    ELSE "success"
Flags(data, f, tex) ==
    { <<a.glIsClean, a.sessionCallSent, a.idIsValid>> :
        a \in DoneArgs(ST_Setup(data, f.fail, tex, f.jni, f.outcome).e) }
\* every (stage, flags) the ALLOCATE of this state can end with
StageFlags ==
    { <<Stage(data, f, tex), Flags(data, f, tex)>> :
        data \in SetupPayloads, f \in SetupFaults, tex \in NewTextureNames }
NamedStages == {"GL setup failed", "JNI hand-off failed", "no matching session found", "success"}

\* C14 as stated: the flags reported for 'GL setup failed', 'JNI hand-off
\* failed', 'no matching session found' and success are pairwise different.
C14_FlagsTellStages ==
    IsST => \A p, q \in StageFlags :
                p[1] \in NamedStages /\ q[1] \in NamedStages /\ p[1] # q[1] => p[2] # q[2]

\* C14 amended: setupNativeTextures calls onDoneCallback once with (glIsClean,
\* sessionCallSent, idIsValid) = (true, true, true) on success, (false, false,
\* true) when the startCaptureSession call was made and failed, and (true,
\* false, false) in every case in which the call was not made: no matching
\* session, failed GL set-up, a texture name already in g_renderers, no JNIEnv.
C14_FlagsTellCallMade ==
    IsST => \A p \in StageFlags :
                p[2] = { CASE p[1] = "success" -> <<TRUE, TRUE, TRUE>>
                           [] p[1] = "JNI hand-off failed" -> <<FALSE, FALSE, TRUE>>
                           [] OTHER -> <<TRUE, FALSE, FALSE>> }

\* a state in which an ALLOCATE can end at each of the four named stages
C14_Witness ==
    /\ IsST
    /\ NamedStages \subseteq {p[1] : p \in StageFlags}
    /\ \E p \in StageFlags : p[1] = "JNI hand-off failed" /\ p[2] = {<<FALSE, FALSE, TRUE>>}
\* What the two AttachEnv functions return on a thread for which the JVM
\* answers jni, with g_javaVm as javaVm.
Attached(javaVm, jni) ==
    { AttachEnv(OnThread(Begin(env), jni = "attached"), javaVm, jni),
      TM_AttachEnv(OnThread(Begin(env), jni = "attached"), javaVm, jni) }

\* C15: with a JavaVM, AttachEnv reports shouldDetach = true exactly when it
\* attached the thread itself (GetEnv said JNI_EDETACHED and
\* AttachCurrentThread succeeded), and it returns a JNIEnv exactly when the
\* thread is attached afterwards; on an attached thread it calls no
\* AttachCurrentThread and reports false, and an ALLOCATE on such a thread
\* calls no DetachCurrentThread.  Without a JavaVM it makes no JNI call and
\* returns null.
C15_ShouldDetachIffNewlyAttached ==
    /\ \A jni \in JniOutcomes : \A a \in Attached(1, jni) :
          /\ a.shouldDetach <=> CallsWith(a.e, "AttachCurrentThread", TRUE) = 1
          /\ a.shouldDetach <=> jni = "ok"
          /\ a.ok <=> a.e.attached
          /\ a.ok <=> jni \in {"attached", "ok"}
          /\ jni = "attached" => Calls(a.e, "AttachCurrentThread") = 0 /\ ~a.shouldDetach
          /\ Calls(a.e, "GetEnv") = 1
          /\ Calls(a.e, "DetachCurrentThread") = 0
    /\ \A jni \in JniOutcomes : \A a \in Attached(0, jni) : ~a.ok /\ a.e.trace = <<>>
    /\ \A data \in SetupPayloads, f \in Faults, tex \in NewTextureNames :
          f.jni = "attached" =>
              /\ Calls(Allocated(data, f, tex).e, "DetachCurrentThread") = 0
              /\ Calls(Allocated(data, f, tex).e, "AttachCurrentThread") = 0

\* an ALLOCATE that hands off on an attached thread without detaching it, and
\* one that attaches the thread itself and detaches it
C15_Witness ==
    \E data \in SetupPayloads, f, g \in Faults, tex \in NewTextureNames :
        /\ f.jni = "attached" /\ g.jni = "ok"
        /\ Calls(Allocated(data, f, tex).e, "startCaptureSession") = 1
        /\ Calls(Allocated(data, f, tex).e, "DetachCurrentThread") = 0
        /\ CallsWith(Allocated(data, g, tex).e, "AttachCurrentThread", TRUE) = 1
        /\ Calls(Allocated(data, g, tex).e, "DetachCurrentThread") = 1
ClearedBeforeNextJniCall(tr) ==
    \A i, j \in 1..Len(tr) :
        /\ i < j
        /\ tr[i].call = "startCaptureSession"
        /\ tr[j].call \in {"DeleteGlobalRef", "DetachCurrentThread"}
        => \E k \in (i + 1)..(j - 1) : tr[k].call = "ExceptionClear"

\* C17 as stated: when startCaptureSession throws in an ALLOCATE, the
\* exception is checked, described and cleared before the next JNI call
\* (DeleteGlobalRef, DetachCurrentThread) on that thread.
C17_ExceptionClearedFirst ==
    \A data \in SetupPayloads, f \in Faults, tex \in NewTextureNames :
        f.outcome = "exception" => ClearedBeforeNextJniCall(Allocated(data, f, tex).e.trace)
\* The target dimensions of the per-stream entry of t.
EntryWidth(t) == IF IsST THEN g_renderers[t].width ELSE g_drawInfosMap[t].viewportWidth
EntryHeight(t) == IF IsST THEN g_renderers[t].height ELSE g_drawInfosMap[t].viewportHeight

\* C18 as stated: the render pass of an UPDATE whose target width or height
\* is smaller than 1 performs no draw call.
C18_NoDrawWithoutDimensions ==
    \A t \in SurfaceKeys \cap StreamKeys, fbComplete \in BOOLEAN :
        EntryWidth(t) < 1 \/ EntryHeight(t) < 1 => Draws(Updated(t, fbComplete)) = 0
\* The environment after an UPDATE for texture t that starts where an earlier
\* handler left the environment e.
UpdatedNext(e, t, fbComplete) ==
    IF IsST THEN ST_Render(g_surfaceTextures, g_renderers, Statics, Begin(End(e)), t, fbComplete)
    ELSE TM_Update(g_registeredSurfaceTextureMap, g_drawInfosMap, g_renderInfo, Begin(End(e)), t, fbComplete)
\* The framebuffers that were bound when the draw calls of a handler were made.
DrawTargets(e) ==
    {e.trace[i].arg.framebuffer :
        i \in {j \in 1..Len(e.trace) : e.trace[j].call \in {"glDrawArrays", "glDrawElements"}}}

\* C19: an UPDATE whose render pass finds the framebuffer incomplete issues no
\* draw call and returns with framebuffer 0 bound; the next UPDATE for the same
\* texture, with the framebuffer complete, draws once into the framebuffer of
\* the per-stream entry.
C19_IncompleteFramebufferIsPerCall ==
    \A t \in SurfaceKeys \cap StreamKeys :
        CanDraw(t) =>
            /\ Draws(Updated(t, FALSE)) = 0
            /\ Updated(t, FALSE).bound.framebuffer = 0
            /\ Draws(UpdatedNext(Updated(t, FALSE), t, TRUE)) = 1
            /\ DrawTargets(UpdatedNext(Updated(t, FALSE), t, TRUE)) = {FramebufferOf(t)}
            /\ UpdatedNext(Updated(t, FALSE), t, TRUE).bound.framebuffer = 0

\* a stream whose render pass ran up to the completeness check and stopped
C19_Witness ==
    \E t \in SurfaceKeys \cap StreamKeys :
        /\ CanDraw(t)
        /\ FramebufferOf(t) # 0
        /\ Calls(Updated(t, FALSE), "ASurfaceTexture_updateTexImage") = 1
        /\ Draws(Updated(t, FALSE)) = 0
        /\ Draws(UpdatedNext(Updated(t, FALSE), t, TRUE)) = 1
\* C20 as stated: when an UPDATE whose render pass issued its draw call
\* returns, the texture, vertex array, program and framebuffer bindings are
\* all 0.
C20_DrawRestoresBindings ==
    \A t \in SurfaceKeys \cap StreamKeys :
        Draws(Updated(t, TRUE)) = 1 =>
            Updated(t, TRUE).bound = [framebuffer |-> 0, texture |-> 0, vertexArray |-> 0, program |-> 0]
\* C21 as stated: whenever a Renderer is registered in the Renderer map, the
\* shared program, vertex array and vertex buffer handles are non-zero.
C21_SharedHandlesWhileRegistered ==
    IsST /\ DOMAIN g_renderers # {} =>
        /\ _shaderProgram # 0
        /\ _vertexArrayObject # 0
        /\ _vertexBufferObject # 0
\* The surface-texture store, and what deregisterSurfaceTextureForUpdates(k)
\* leaves of it.
SurfaceStore == IF IsST THEN g_surfaceTextures ELSE g_registeredSurfaceTextureMap
SurfaceStoreWithout(k) ==
    IF IsST THEN ST_DeregisterSurfaceTexture(g_surfaceTextures, Begin(env), k).map
    ELSE TM_DeregisterSurfaceTexture(g_registeredSurfaceTextureMap, Begin(env), k).map
\* deregisterSurfaceTextureForUpdates(k) changes nothing
DeregisterIsNoOp(k) ==
    /\ SurfaceStoreWithout(k) = SurfaceStore
    /\ DeregisteredSurface(k).natives = env.natives
    /\ DeregisteredSurface(k).globalRefs = env.globalRefs
    /\ Calls(DeregisteredSurface(k), "ASurfaceTexture_release") = 0
    /\ Calls(DeregisteredSurface(k), "DeleteGlobalRef") = 0

UnreferencedGlobals ==
    (env.programs \ {g_renderInfo.program})
    \cup (env.buffers \ {g_renderInfo.vbo, g_renderInfo.ebo})
    \cup (env.vertexArrays \ {g_renderInfo.vao})
    \cup env.shaders

SharedProgramSetup(fail) ==
    IF IsST
    THEN LET x == initializeProgram(Statics, Begin(env), fail)
         IN [ok |-> x.ok, program |-> x.S.program, e |-> x.e]
    ELSE LET c == checkGlobalRenderInfo(g_renderInfo, Begin(env), fail)
         IN [ok |-> c.ok, program |-> c.G.program, e |-> c.e]
\* the shared program has to be built
SharedProgramMissing == IF IsST THEN _shaderProgram = 0 ELSE g_renderInfo.program = 0
\* the failures that leave both shaders compiled
AfterCompileFailures ==
    (IF IsST THEN InitFailures ELSE GlobalsFailures) \ {"compileVertex", "compileFragment"}
\* every glDeleteShader of the trace comes after its glCreateProgram
DeletedAfterLink(tr) ==
    \A i, j \in 1..Len(tr) :
        tr[i].call = "glDeleteShader" /\ tr[j].call = "glCreateProgram" => j < i

\* C26: when the shared program has to be built and both shaders compile, the
\* two shaders are deleted, once each and after glCreateProgram, whether the
\* program could not be created, did not link or linked; when it could not be
\* created or did not link, no program is left alive, the shared handle is 0
\* and the set-up reports failure.
C26_ShadersDeletedAfterLink ==
    \A fail \in AfterCompileFailures :
        SharedProgramMissing =>
            /\ Calls(SharedProgramSetup(fail).e, "glCreateShader") = 2
            /\ Calls(SharedProgramSetup(fail).e, "glDeleteShader") = 2
            /\ \A n \in SharedNames :
                  CallsWith(SharedProgramSetup(fail).e, "glDeleteShader", n)
                      = CallsWith(SharedProgramSetup(fail).e, "glCreateShader", n)
            /\ SharedProgramSetup(fail).e.shaders = {}
            /\ DeletedAfterLink(SharedProgramSetup(fail).e.trace)
            /\ SharedProgramSetup(fail).e.misuse = env.misuse
            /\ fail \in {"glCreateProgram", "link"} =>
                  /\ ~SharedProgramSetup(fail).ok
                  /\ SharedProgramSetup(fail).program = 0
                  /\ SharedProgramSetup(fail).e.programs = env.programs

\* a loaded library without a shared program, whose failed link creates a
\* program and deletes it again together with the two shaders
C26_Witness ==
    /\ phase = "loaded"
    /\ SharedProgramMissing
    /\ Calls(SharedProgramSetup("link").e, "glCreateProgram") = 1
    /\ Calls(SharedProgramSetup("link").e, "glDeleteProgram") = 1
    /\ Calls(SharedProgramSetup("link").e, "glDeleteShader") = 2
    /\ SharedProgramSetup("none").program # 0
\* The shared program and geometry exist, and the handles an ALLOCATE leaves.
SharedExist ==
    IF IsST THEN _shaderProgram # 0 /\ _vertexBufferObject # 0 /\ _vertexArrayObject # 0
    ELSE /\ g_renderInfo.program # 0 /\ g_renderInfo.vao # 0
         /\ g_renderInfo.ebo # 0 /\ g_renderInfo.vbo # 0
         /\ g_renderInfo.resolutionUniformLocation # -1
         /\ g_renderInfo.textureUniformLocation # -1
SharedHandles == IF IsST THEN <<_shaderProgram, _vertexBufferObject, _vertexArrayObject>>
                 ELSE g_renderInfo
SharedHandlesOf(x) == IF IsST THEN <<x.S.program, x.S.vbo, x.S.vao>> ELSE x.G

\* C27: an ALLOCATE that runs while the shared program and geometry exist
\* creates no shader, no program, no buffer and no vertex array, deletes none
\* of the shared objects and leaves the shared handles as they were, whatever
\* else goes wrong in it.
C27_SharedSetupIsIdempotent ==
    SharedExist =>
        \A data \in SetupPayloads, f \in Faults, tex \in NewTextureNames :
            /\ Calls(Allocated(data, f, tex).e, "glCreateShader") = 0
            /\ Calls(Allocated(data, f, tex).e, "glCreateProgram") = 0
            /\ Calls(Allocated(data, f, tex).e, "glGenBuffers") = 0
            /\ Calls(Allocated(data, f, tex).e, "glGenVertexArrays") = 0
            /\ Calls(Allocated(data, f, tex).e, "glDeleteProgram") = 0
            /\ Calls(Allocated(data, f, tex).e, "glDeleteBuffers") = 0
            /\ Calls(Allocated(data, f, tex).e, "glDeleteVertexArrays") = 0
            /\ SharedHandlesOf(Allocated(data, f, tex)) = SharedHandles
            /\ Allocated(data, f, tex).e.programs = env.programs
            /\ Allocated(data, f, tex).e.buffers = env.buffers
            /\ Allocated(data, f, tex).e.vertexArrays = env.vertexArrays

\* a second stream allocated with the shared objects of the first
C27_Witness ==
    /\ SharedExist
    /\ StreamKeys # {}
    /\ \E data \in SetupPayloads, tex \in NewTextureNames \ {0} :
          /\ data.timestamp \in DOMAIN SessionStore
          /\ tex \in DOMAIN StreamStoreOf(Allocated(data, [fail |-> "none", fboFailed |-> FALSE,
                                                            jni |-> "ok", outcome |-> "true"], tex))
          /\ Calls(Allocated(data, [fail |-> "none", fboFailed |-> FALSE,
                                    jni |-> "ok", outcome |-> "true"], tex).e, "startCaptureSession") = 1
\* The startCaptureSession method ID is unresolved.
MethodIdUnresolved ==
    IF IsST THEN g_startCaptureSessionMtd = 0 ELSE g_startCaptureSessionMethodId = 0
\* the calls of a handler that create a GL object
GlCreations(e) ==
    Calls(e, "glGenTextures") + Calls(e, "glGenFramebuffers") + Calls(e, "glCreateShader")
    + Calls(e, "glCreateProgram") + Calls(e, "glGenBuffers") + Calls(e, "glGenVertexArrays")
\* the GL objects the driver holds
GlObjects(e) == <<e.textures, e.framebuffers, e.shaders, e.programs, e.buffers, e.vertexArrays>>
\* an ALLOCATE that calls no Java method, releases no reference, leaves the
\* stores as they are and signals completion once
AllocateAborts(x) ==
    /\ Calls(x.e, "startCaptureSession") = 0
    /\ Calls(x.e, "DeleteGlobalRef") = 0
    /\ x.sessions = SessionStore
    /\ StreamStoreOf(x) = StreamStore
    /\ x.e.globalRefs = env.globalRefs
    /\ Calls(x.e, "onDoneCallback") = 1

\* C28 as stated: an ALLOCATE that runs while the method ID is unresolved
\* makes no JNI method call, creates no GL object and no per-stream entry,
\* consumes no pending session and signals completion.
C28_UnresolvedMethodAborts ==
    MethodIdUnresolved =>
        \A data \in SetupPayloads, f \in Faults, tex \in NewTextureNames :
            /\ AllocateAborts(Allocated(data, f, tex))
            /\ GlCreations(Allocated(data, f, tex).e) = 0

\* C28, amended: an ALLOCATE that runs while the method ID is unresolved
\* makes no JNI method call, leaves no per-stream entry, consumes no pending
\* session, signals completion once and leaves the GL objects and the shared
\* handles as they were.  TextureManager creates no GL object.
\* STCaptureSessionHelper, which does not test the method ID, creates none
\* when no session is pending under the timestamp; when one is, it builds the
\* Renderer and disposes of it again.
C28_UnresolvedMethodLeavesNothing ==
    MethodIdUnresolved =>
        \A data \in SetupPayloads, f \in Faults, tex \in NewTextureNames :
            /\ AllocateAborts(Allocated(data, f, tex))
            /\ GlObjects(Allocated(data, f, tex).e) = GlObjects(env)
            /\ SharedHandlesOf(Allocated(data, f, tex)) = SharedHandles
            /\ IsTM \/ data.timestamp \notin DOMAIN SessionStore =>
                  GlCreations(Allocated(data, f, tex).e) = 0

\* a session left pending by a JNI_OnUnload that stopped at GetEnv, for which
\* an ALLOCATE creates a texture and deletes it again
C28_Witness ==
    /\ IsST /\ MethodIdUnresolved
    /\ \E data \in SetupPayloads, tex \in NewTextureNames \ {0} :
          /\ data.timestamp \in DOMAIN SessionStore
          /\ CallsWith(Allocated(data, [fail |-> "none", jni |-> "ok", outcome |-> "true"], tex).e,
                       "glGenTextures", tex) = 1
          /\ CallsWith(Allocated(data, [fail |-> "none", jni |-> "ok", outcome |-> "true"], tex).e,
                       "glDeleteTextures", tex) = 1
          /\ Calls(Allocated(data, [fail |-> "none", jni |-> "ok", outcome |-> "true"], tex).e,
                   "onDoneCallback") = 1
\* the last call a handler made is its completion callback, and its only one
DoneOnceAtEnd(e) ==
    /\ Calls(e, "onDoneCallback") = 1
    /\ e.trace[Len(e.trace)].call = "onDoneCallback"

\* C29: every ALLOCATE, UPDATE and DESTROY with a payload invokes its
\* completion callback exactly once, as the last thing it does, whatever the
\* stores hold and whatever fails.
C29_DoneCallbackExactlyOnce ==
    /\ \A data \in SetupPayloads, f \in Faults, tex \in NewTextureNames :
          DoneOnceAtEnd(Allocated(data, f, tex).e)
    /\ \A t \in TextureIds, fbComplete \in BOOLEAN : DoneOnceAtEnd(Updated(t, fbComplete))
    /\ \A t \in TextureIds : DoneOnceAtEnd(Destroyed(t).e)

\* a stream that can be allocated, rendered and destroyed, next to a texture
\* ID for which UPDATE and DESTROY fail
C29_Witness ==
    /\ \E t \in SurfaceKeys \cap StreamKeys :
          /\ Draws(Updated(t, TRUE)) = 1
          /\ t \notin DOMAIN StreamStoreOf(Destroyed(t))
    /\ \E t \in TextureIds : t \notin SurfaceKeys \cup StreamKeys
    /\ \E data \in SetupPayloads, f \in Faults, tex \in NewTextureNames :
          Calls(Allocated(data, f, tex).e, "startCaptureSession") = 1

\* C23: an UPDATE uses the native surface texture handle it looked up only
\* while the handle is live, whatever the JVM thread does meanwhile
\* (registering, deregistering, JNI_OnUnload): a thread between its lookup
\* and its last use of the handle holds a live handle, and no call was ever
\* made on a released one.
UsesHandle(t) == threads[t].op = "UPDATE" /\ threads[t].pc \in {"render", "updateTexImage"}
C23_UpdateUsesLiveHandle ==
    /\ "use of a dead ASurfaceTexture" \notin env.misuse
    /\ \A t \in RenderThreads : UsesHandle(t) => threads[t].native \in env.natives
\* an UPDATE has called updateTexImage and still holds the surface texture
\* mutex, which the JVM thread, inside registerSurfaceTextureForUpdates or
\* JNI_OnUnload, is about to lock
C23_Witness ==
    \E t \in RenderThreads, j \in JavaThreads :
        /\ threads[t].op = "UPDATE"
        /\ Calls(threads[t], "ASurfaceTexture_updateTexImage") = 1
        /\ threads[j].op \in {"registerSurfaceTexture", "JNI_OnUnload"}
        /\ threads[j].pc \in {"lock", "lock2"}
        /\ Holds(t, "g_surfaceTexturesMtx") \/ Holds(t, "g_registeredSurfaceTextureMapMutex")

\* C30: in an ALLOCATE that hands the texture off, the per-stream entry is in
\* its store and the session's reference is live when startCaptureSession is
\* about to be called; the reference is released after the call, and
\* onDoneCallback comes after the release.
HandedOff(t) ==
    /\ Running(t, "ALLOCATE", "return")
    /\ threads[t].result
    /\ Calls(threads[t], "startCaptureSession") = 1
CallThenReleaseThenDone(tr, session) ==
    \E i, j, k \in 1..Len(tr) :
        /\ i < j /\ j < k
        /\ tr[i].call = "startCaptureSession"
        /\ tr[j].call = "DeleteGlobalRef" /\ tr[j].arg = session
        /\ tr[k].call = "onDoneCallback"
        /\ \A n \in 1..j : tr[n].call # "onDoneCallback"
        /\ \A n \in 1..i : ~(tr[n].call = "DeleteGlobalRef" /\ tr[n].arg = session)
C30_AllocateStepsInOrder ==
    \A t \in RenderThreads :
        /\ Running(t, "ALLOCATE", "call") =>
              /\ Has(StreamStore, threads[t].texture)
              /\ threads[t].session \in env.globalRefs
        /\ HandedOff(t) => CallThenReleaseThenDone(threads[t].trace, threads[t].session)
C30_Witness == \E t \in RenderThreads : HandedOff(t) /\ Calls(threads[t], "onDoneCallback") = 1

\* C22 as stated: one ALLOCATE consumes a pending session and every other
\* ALLOCATE naming its timestamp invokes no callback, so an ALLOCATE that has
\* invoked startCaptureSession leaves no session pending under its timestamp.
C22_CalledSessionIsConsumed ==
    \A t \in RenderThreads :
        Running(t, "ALLOCATE", "return") /\ Calls(threads[t], "startCaptureSession") > 0
            => ~Has(SessionStore, threads[t].timestamp)

\* C22: the hand-off of a pending session is exclusive.  A thread that has
\* found the session and not yet returned holds the mutex of the session map,
\* no other thread is in that stretch, and until the thread is past the call
\* the session it found is the one stored under its timestamp, with a live
\* reference.  It calls startCaptureSession at most once; afterwards the
\* session is gone, unless the call threw in the TextureManager library,
\* which keeps it.  An ALLOCATE that found the session and could not attach
\* to the JVM leaves it pending, one that found no session calls nothing, and
\* no call is ever made on a released reference.
InJavaMethod == {"call", "reenterSurfaceTexture", "reenterSession", "reentered", "inCallback"}
InHandOff(t) ==
    /\ threads[t].op = "ALLOCATE"
    /\ threads[t].session # 0
    /\ threads[t].pc \in {"attach", "called", "return"} \cup InJavaMethod
SessionMutex == IF IsST THEN "g_registeredSessionsMtx" ELSE "g_uninitializedSTCaptureSessionMapMutex"
C22_HandOffIsExclusive ==
    /\ "JNI call on a dead reference" \notin env.misuse
    /\ \A t \in RenderThreads :
          /\ InHandOff(t) =>
                /\ Holds(t, SessionMutex)
                /\ \A u \in RenderThreads \ {t} : ~InHandOff(u)
                /\ Calls(threads[t], "startCaptureSession") <= 1
          /\ InHandOff(t) /\ threads[t].pc \in {"attach", "called"} \cup InJavaMethod =>
                /\ Has(SessionStore, threads[t].timestamp)
                /\ SessionStore[threads[t].timestamp] = threads[t].session
                /\ threads[t].session \in env.globalRefs
          /\ Running(t, "ALLOCATE", "return") /\ Calls(threads[t], "startCaptureSession") = 1 =>
                (Has(SessionStore, threads[t].timestamp) <=> IsTM /\ ~threads[t].result)
          /\ InHandOff(t) /\ threads[t].pc = "return"
                /\ Calls(threads[t], "startCaptureSession") = 0 =>
                /\ Has(SessionStore, threads[t].timestamp)
                /\ SessionStore[threads[t].timestamp] = threads[t].session
          /\ Running(t, "ALLOCATE", "return") /\ threads[t].session = 0 =>
                Calls(threads[t], "startCaptureSession") = 0
\* one ALLOCATE is past its call while another, for the same timestamp, has
\* made its texture and framebuffer and is about to lock
C22_Witness ==
    \E t, u \in RenderThreads :
        /\ Running(t, "ALLOCATE", "called")
        /\ Running(u, "ALLOCATE", "store")
        /\ threads[t].timestamp = threads[u].timestamp

\* An ALLOCATE that finds its session, sets up its GL objects and is refused
\* by AttachEnv: g_javaVm is null, GetEnv fails or AttachCurrentThread fails.
AttachRefused(data, f, tex) ==
    /\ Has(SessionStore, data.timestamp)
    /\ f.fail = "none"
    /\ f.jni \in {"GetEnvError", "AttachFailed"} \/ g_javaVm = 0
    /\ IsST => ~Has(g_renderers, tex)
    /\ IsTM => /\ tex # 0 /\ ~f.fboFailed
                /\ g_startCaptureSessionMethodId # 0
                /\ FreeName(env.framebuffers, FramebufferNames) # 0
\* what the claim has rolled back, x being what the ALLOCATE returns
RolledBack(x, data) ==
    /\ x.e.textures = env.textures /\ x.e.framebuffers = env.framebuffers
    /\ StreamStoreOf(x) = StreamStore
    /\ x.sessions = SessionStore
    /\ SessionStore[data.timestamp] \in x.e.globalRefs
    /\ Calls(x.e, "startCaptureSession") = 0
    /\ Calls(x.e, "onDoneCallback") = 1

FreshStatics == [refs |-> 0, program |-> 0, vbo |-> 0, vao |-> 0]
LastRenderer(t) == IsST /\ Has(g_renderers, t) /\ _staticReferenceHolders = 1
InitializeOutcome(i) ==
    [ok |-> i.ok, r |-> i.r, S |-> i.S, texture |-> i.texture, calls |-> i.e.trace,
     textures |-> i.e.textures, framebuffers |-> i.e.framebuffers,
     shaders |-> i.e.shaders, programs |-> i.e.programs, buffers |-> i.e.buffers,
     vertexArrays |-> i.e.vertexArrays,
     bound |-> [i.e.bound EXCEPT !.program = 0]]

\* C35: the DESTROY of the only Renderer left deletes the shared program,
\* vertex array and vertex buffer and leaves the reference count and the
\* three shared handles 0; a Renderer::initialize that follows it makes the
\* same calls with the same results as one on the statics and the GL driver
\* the library starts with, whatever fails in it; and in every state whose
\* shared handles are 0 an ALLOCATE without a fault creates the program, the
\* vertex array and the vertex buffer once each, counts one reference and
\* reports success with the texture it generated.
C35_TornDownAllocatesAsFirst ==
    /\ \A t \in TextureNames :
          LastRenderer(t) =>
              /\ Destroyed(t).S = FreshStatics
              /\ Destroyed(t).e.programs = {}
              /\ Destroyed(t).e.buffers = {}
              /\ Destroyed(t).e.vertexArrays = {}
              /\ \A data \in SetupPayloads, fail \in InitFailures, tex \in TextureNames \cup {0} :
                    InitializeOutcome(initialize(Renderer(data.unityTexture, data.width, data.height),
                                                 Destroyed(t).S, Begin(Destroyed(t).e), fail, tex))
                    = InitializeOutcome(initialize(Renderer(data.unityTexture, data.width, data.height),
                                                   FreshStatics, EnvInit, fail, tex))
    /\ IsST /\ Statics = FreshStatics /\ JavaCanCall =>
          \A data \in SetupPayloads, tex \in NewTextureNames \ {0} :
              Has(SessionStore, data.timestamp) =>
                  /\ Calls(Allocated(data, [fail |-> "none", jni |-> "ok", outcome |-> "true"], tex).e,
                           "glCreateProgram") = 1
                  /\ Calls(Allocated(data, [fail |-> "none", jni |-> "ok", outcome |-> "true"], tex).e,
                           "glGenVertexArrays") = 1
                  /\ Calls(Allocated(data, [fail |-> "none", jni |-> "ok", outcome |-> "true"], tex).e,
                           "glGenBuffers") = 1
                  /\ Allocated(data, [fail |-> "none", jni |-> "ok", outcome |-> "true"], tex).S.refs = 1
                  /\ Allocated(data, [fail |-> "none", jni |-> "ok", outcome |-> "true"], tex).S.program
                        \in Allocated(data, [fail |-> "none", jni |-> "ok", outcome |-> "true"], tex).e.programs
                  /\ Allocated(data, [fail |-> "none", jni |-> "ok", outcome |-> "true"], tex).S.vbo
                        \in Allocated(data, [fail |-> "none", jni |-> "ok", outcome |-> "true"], tex).e.buffers
                  /\ Allocated(data, [fail |-> "none", jni |-> "ok", outcome |-> "true"], tex).S.vao
                        \in Allocated(data, [fail |-> "none", jni |-> "ok", outcome |-> "true"], tex).e.vertexArrays
                  /\ DoneArgs(Allocated(data, [fail |-> "none", jni |-> "ok", outcome |-> "true"], tex).e) =
                        {[glIsClean |-> TRUE, sessionCallSent |-> TRUE,
                          unityTexture |-> data.unityTexture, nativeTexture |-> tex,
                          idIsValid |-> TRUE]}

\* one Renderer is left, its DESTROY deletes the shared program, and a session
\* is pending for the ALLOCATE that follows
C35_Witness ==
    \E t \in TextureNames :
        /\ LastRenderer(t)
        /\ Calls(Destroyed(t).e, "glDeleteProgram") = 1
        /\ Calls(Destroyed(t).e, "glDeleteBuffers") = 1
        /\ SessionStore # EmptyMap
        /\ JavaCanCall

\* C36 as stated: Renderer::_staticReferenceHolders is the number of
\* Renderers that were initialized and not yet disposed of, which between two
\* handlers are the Renderers registered in g_renderers.
C36_CounterCountsRenderers ==
    IsST /\ phase = "loaded" => _staticReferenceHolders = Cardinality(DOMAIN g_renderers)

\* What a session registration under timestamp t and a surface-texture
\* registration under texture ID k return: [map, e].
SessionRegistered(t, newRefOk) ==
    IF IsST
    THEN [map |-> ST_RegisterSession(g_registeredSessions, Begin(env), t, newRefOk).sessions,
          e |-> ST_RegisterSession(g_registeredSessions, Begin(env), t, newRefOk).e]
    ELSE TM_QueueSession(g_uninitializedSTCaptureSessionMap, Begin(env), t, newRefOk)
SurfaceRegistered(k, newRefOk) ==
    IF IsST
    THEN [map |-> ST_RegisterSurfaceTexture(g_surfaceTextures, Begin(env), k, newRefOk).map,
          e |-> ST_RegisterSurfaceTexture(g_surfaceTextures, Begin(env), k, newRefOk).e]
    ELSE TM_RegisterSurfaceTexture(g_registeredSurfaceTextureMap, Begin(env), k, newRefOk)
\* NewGlobalRef was called and returned null
NewGlobalRefReturnedNull(e) == CallsWith(e, "NewGlobalRef", 0) = 1
\* a registration that left everything as it was
NoSideEffects(x, store) ==
    /\ x.map = store
    /\ x.e.globalRefs = env.globalRefs /\ x.e.natives = env.natives
    /\ Calls(x.e, "DeleteGlobalRef") = 0
    /\ Calls(x.e, "ASurfaceTexture_release") = 0
    /\ Calls(x.e, "ASurfaceTexture_fromSurfaceTexture") = 0
    /\ Calls(x.e, "NewGlobalRef") = 1
    /\ x.e.misuse = env.misuse

\* C38: a session registration and a surface-texture registration whose
\* NewGlobalRef returns null leave the store as it was, an entry already
\* stored under the key still stored with its reference (and native handle)
\* live, release nothing and acquire no native handle; the function of
\* STCaptureSessionHelper returns false.
C38_FailedRegistrationHasNoSideEffects ==
    JavaCanCall =>
        \A newRefOk \in BOOLEAN :
            /\ \A t \in Timestamps :
                  NewGlobalRefReturnedNull(SessionRegistered(t, newRefOk).e) =>
                      /\ NoSideEffects(SessionRegistered(t, newRefOk), SessionStore)
                      /\ Has(SessionStore, t) => SessionStore[t] \in SessionRegistered(t, newRefOk).e.globalRefs
                      /\ IsST => ~ST_RegisterSession(g_registeredSessions, Begin(env), t, newRefOk).ret
            /\ \A k \in TextureIds :
                  NewGlobalRefReturnedNull(SurfaceRegistered(k, newRefOk).e) =>
                      /\ NoSideEffects(SurfaceRegistered(k, newRefOk), SurfaceStore)
                      /\ Has(SurfaceStore, k) =>
                            /\ SurfaceRef(k) \in SurfaceRegistered(k, newRefOk).e.globalRefs
                            /\ SurfaceNative(k) \in SurfaceRegistered(k, newRefOk).e.natives
                      /\ IsST => ~ST_RegisterSurfaceTexture(g_surfaceTextures, Begin(env), k, newRefOk).ret

\* a registered surface texture and a pending session, and registrations under
\* their keys whose NewGlobalRef returns null
C38_Witness ==
    /\ JavaCanCall
    /\ \E k \in SurfaceKeys : NewGlobalRefReturnedNull(SurfaceRegistered(k, FALSE).e)
    /\ \E t \in DOMAIN SessionStore : NewGlobalRefReturnedNull(SessionRegistered(t, FALSE).e)

\* What OnRenderEvent(eventId, data) returns, and a handler that changed no
\* registry and no GL object and called neither a callback nor the JVM.
Dispatched(eventId, data, f, tex, fbComplete) ==
    IF IsST THEN ST_Dispatch(eventId, data, f, tex, fbComplete)
    ELSE TM_Dispatch(eventId, data, f, tex, fbComplete)
JavaCalls(e) ==
    Calls(e, "startCaptureSession") + Calls(e, "NewGlobalRef") + Calls(e, "DeleteGlobalRef")
    + Calls(e, "GetEnv") + Calls(e, "AttachCurrentThread") + Calls(e, "DetachCurrentThread")
\* events 2 and 3, whose handlers generate no texture and attach no thread
DestroyEvent(data, fbComplete) ==
    Dispatched(2, data, CHOOSE f \in Faults : f.fail = "none", 0, fbComplete)
UpdateEvent(data, fbComplete) ==
    Dispatched(3, data, CHOOSE f \in Faults : f.fail = "none", 0, fbComplete)
EventIgnored(x) ==
    /\ x.sessions = SessionStore /\ StreamStoreOf(x) = StreamStore
    /\ IsST => x.S = Statics
    /\ IsTM => x.G = g_renderInfo
    /\ GlObjects(x.e) = GlObjects(env)
    /\ x.e.bound = env.bound
    /\ x.e.globalRefs = env.globalRefs /\ x.e.natives = env.natives
    /\ GlCreations(x.e) = 0
    /\ Calls(x.e, "onDoneCallback") = 0
    /\ JavaCalls(x.e) = 0
    /\ Calls(x.e, "LOGE") = 1

\* C39: OnRenderEvent runs the ALLOCATE handler for event ID 1, the DESTROY
\* handler for event ID 2 and the UPDATE handler for event ID 3; for any other
\* ID, and for a null payload under any ID, it leaves the registries, the
\* shared handles and the GL objects as they were, calls no onDoneCallback
\* and makes no JNI call.
C39_DispatchByEventId ==
    /\ \A data \in SetupPayloads, f \in Faults, tex \in NewTextureNames :
          Dispatched(1, data, f, tex, TRUE) = Allocated(data, f, tex)
    /\ \A data \in TexturePayloads, fbComplete \in BOOLEAN :
          /\ DestroyEvent(data, fbComplete).e = Destroyed(data.nativeTexture).e
          /\ StreamStoreOf(DestroyEvent(data, fbComplete)) = StreamStoreOf(Destroyed(data.nativeTexture))
          /\ DestroyEvent(data, fbComplete).sessions = SessionStore
          /\ IsST => DestroyEvent(data, fbComplete).S = Destroyed(data.nativeTexture).S
          /\ UpdateEvent(data, fbComplete).e = Updated(data.nativeTexture, fbComplete)
          /\ StreamStoreOf(UpdateEvent(data, fbComplete)) = StreamStore
          /\ UpdateEvent(data, fbComplete).sessions = SessionStore
    /\ \A eventId \in EventIds, f \in Faults :
          /\ EventIgnored(Dispatched(eventId, NullPayload, f, GeneratedTexture, TRUE))
          /\ eventId \notin {1, 2, 3} =>
                \A data \in SetupPayloads \cup TexturePayloads :
                    EventIgnored(Dispatched(eventId, data, f, GeneratedTexture, TRUE))

\* a stream that event 2 destroys and event 3 draws, a session that event 1
\* hands off, and an event 4 that does none of it
C39_Witness ==
    /\ JavaCanCall
    /\ \E data \in TexturePayloads :
          /\ data.nativeTexture \in StreamKeys \cap SurfaceKeys
          /\ data.nativeTexture \notin DOMAIN StreamStoreOf(DestroyEvent(data, TRUE))
          /\ Draws(UpdateEvent(data, TRUE).e) = 1
          /\ EventIgnored(Dispatched(4, data, CHOOSE f \in Faults : f.fail = "none", 0, TRUE))
    /\ \E data \in SetupPayloads, f \in Faults, tex \in NewTextureNames :
          Calls(Dispatched(1, data, f, tex, TRUE).e, "startCaptureSession") = 1

\* the mutexes thread t holds
Held(t) == {m \in Mutexes : mutexes[m] = t}

\* C31 as stated: an ALLOCATE that is about to call startCaptureSession holds
\* the mutex of the pending sessions and no other.
C31_OnlySessionGuardDuringCall ==
    \A t \in RenderThreads : Running(t, "ALLOCATE", "call") => Held(t) = {SessionMutex}

\* The mutex of each registry map, and the maps whose entries thread t, where
\* it stands, goes on to read or write without taking a lock first: the
\* iterators, references and keys it got from its lookups.
MutexOf(map) ==
    CASE map = "g_registeredSessions" -> "g_registeredSessionsMtx"
      [] map = "g_renderers" -> "g_renderersMtx"
      [] map = "g_surfaceTextures" -> "g_surfaceTexturesMtx"
      [] map = "g_uninitializedSTCaptureSessionMap" -> "g_uninitializedSTCaptureSessionMapMutex"
      [] map = "g_registeredSurfaceTextureMap" -> "g_registeredSurfaceTextureMapMutex"
      [] map = "g_drawInfosMap" -> "g_drawInfosMapMutex"
InsideAccess(t) ==
    IF IsST
    THEN CASE threads[t].op = "ALLOCATE" /\ threads[t].pc \in {"find", "attach"} ->
                 {"g_registeredSessions", "g_renderers"}
           [] threads[t].op = "ALLOCATE" /\ threads[t].pc \in InJavaMethod \cup {"called"} ->
                 {"g_registeredSessions"}
           [] threads[t].op = "UPDATE" /\ threads[t].pc = "render" ->
                 {"g_surfaceTextures", "g_renderers"}
           [] OTHER -> {}
    ELSE CASE threads[t].op = "ALLOCATE" /\ threads[t].pc = "find" -> {"g_drawInfosMap"}
           [] threads[t].op = "ALLOCATE" /\ threads[t].pc \in InJavaMethod \cup {"called"} ->
                 {"g_uninitializedSTCaptureSessionMap"}
           [] threads[t].op = "UPDATE" /\ threads[t].pc = "updateTexImage" ->
                 {"g_registeredSurfaceTextureMap"}
           [] OTHER -> {}
\* the step is one of thread t, and thread t holds the mutex of map after it
WrittenUnderLock(map) ==
    \E t \in Threads : threads'[t] # threads[t] /\ mutexes'[MutexOf(map)] = t

\* C32: a thread that goes on to use what it looked up in a registry map
\* holds the mutex of that map, no two threads are inside an access to the
\* same map at once, and every step that changes a registry map is the step
\* of a thread that holds the mutex of that map.
C32_MapsAccessedUnderOwnMutex ==
    /\ [](\A t \in Threads :
            /\ \A map \in InsideAccess(t) : Holds(t, MutexOf(map))
            /\ \A u \in Threads \ {t} : InsideAccess(t) \cap InsideAccess(u) = {})
    /\ [][/\ g_registeredSessions' # g_registeredSessions => WrittenUnderLock("g_registeredSessions")
          /\ g_renderers' # g_renderers => WrittenUnderLock("g_renderers")
          /\ g_surfaceTextures' # g_surfaceTextures => WrittenUnderLock("g_surfaceTextures")
          /\ g_uninitializedSTCaptureSessionMap' # g_uninitializedSTCaptureSessionMap
                => WrittenUnderLock("g_uninitializedSTCaptureSessionMap")
          /\ g_registeredSurfaceTextureMap' # g_registeredSurfaceTextureMap
                => WrittenUnderLock("g_registeredSurfaceTextureMap")
          /\ g_drawInfosMap' # g_drawInfosMap => WrittenUnderLock("g_drawInfosMap")]_vars

\* a render thread is inside its access to a map, holding the mutex of the
\* map, while the JVM thread is about to take a lock and the other render
\* thread is inside the library too
C32_Witness ==
    \E t \in RenderThreads, j \in JavaThreads :
        /\ InsideAccess(t) # {}
        /\ threads[j].pc \in {"lock", "lock1", "lock2"}
        /\ \E map \in InsideAccess(t) : Holds(t, MutexOf(map))
        /\ \E u \in RenderThreads \ {t} : threads[u].pc # "idle"

\* The mutexes thread t, inside a function, is about to lock, and the threads
\* that hold one of them.  A mutex is released only when the function of its
\* holder returns.
Waits(t) ==
    IF IsST
    THEN CASE Running(t, "JNI_OnUnload", "lock") -> ST_UnloadMutexes
           [] Running(t, "ALLOCATE", "reenterSurfaceTexture") -> ST_SurfaceTextureMutexes
           [] Running(t, "ALLOCATE", "reenterSession") -> ST_SessionMutexes
           [] OTHER -> {}
    ELSE CASE Running(t, "ALLOCATE", "store") -> TM_DrawInfoMutexes
           [] Running(t, "ALLOCATE", "find") -> TM_SessionMutexes
           [] Running(t, "ALLOCATE", "reenterSurfaceTexture") -> TM_SurfaceTextureMutexes
           [] Running(t, "ALLOCATE", "reenterSession") -> TM_SessionMutexes
           [] Running(t, "UPDATE", "draw") -> TM_DrawInfoMutexes
           [] Running(t, "queueSession", "lock") -> TM_SessionMutexes
           [] Running(t, "registerSurfaceTexture", "lock") -> TM_SurfaceTextureMutexes
           [] Running(t, "JNI_OnUnload", "lock1") -> TM_SessionMutexes
           [] Running(t, "JNI_OnUnload", "lock2") -> TM_SurfaceTextureMutexes
           [] OTHER -> {}
BlockedBy(t) == {mutexes[m] : m \in Waits(t)} \ {"none"}
\* every thread of C waits for a mutex that a thread of C holds
WaitForever(C) == C # {} /\ \A t \in C : BlockedBy(t) \cap C # {}

\* C33 as stated: no state is reached in which threads wait for ever for the
\* mutexes of the registries: there is no set of threads each of which waits
\* for a mutex held by a thread of the set.
C33_NoThreadWaitsForever == \A C \in SUBSET Threads : ~WaitForever(C)

\* tryDeregisterCaptureSessionNative has run on thread j and is about to
\* return, and the references it released
Deregistered(j) == Running(j, "deregisterSession", "return")
ReleasedBy(j) ==
    {threads[j].trace[i].arg : i \in {n \in 1..Len(threads[j].trace) :
                                        threads[j].trace[n].call = "DeleteGlobalRef"}}

\* C37 (STCaptureSessionHelper): when tryDeregisterCaptureSessionNative(T) is
\* about to return, no session is pending under T, it has released at most
\* one reference, once, and that reference is dead; no ALLOCATE is between
\* its lock and its return at that moment, so none holds the session it
\* released.  Every pending session has a live reference, no reference is
\* released twice and startCaptureSession is never called on a released one.
\* An ALLOCATE that has called startCaptureSession has released the session
\* once itself and leaves none under its timestamp for a deregistration to
\* find, and one that has not called it
\* reports (sessionCallSent = false, nativeTexture = 0, idIsValid = false).
C37_DeregisteredSessionIsNeverCalled ==
    IsST =>
        /\ "JNI call on a dead reference" \notin env.misuse
        /\ "DeleteGlobalRef of a dead reference" \notin env.misuse
        /\ \A T \in DOMAIN g_registeredSessions : g_registeredSessions[T] \in env.globalRefs
        /\ \A j \in JavaThreads :
              Deregistered(j) =>
                  /\ ~Has(g_registeredSessions, threads[j].timestamp)
                  /\ Calls(threads[j], "DeleteGlobalRef") <= 1
                  /\ ReleasedBy(j) \cap env.globalRefs = {}
                  /\ \A t \in RenderThreads :
                        /\ threads[t].op # "ALLOCATE"
                        /\ threads[t].session \notin ReleasedBy(j)
        /\ \A t \in RenderThreads :
              Running(t, "ALLOCATE", "return") =>
                  IF Calls(threads[t], "startCaptureSession") > 0
                  THEN /\ ~Has(g_registeredSessions, threads[t].timestamp)
                       /\ CallsWith(threads[t], "DeleteGlobalRef", threads[t].session) = 1
                  ELSE DoneArgs(threads[t]) =
                          {[glIsClean |-> TRUE, sessionCallSent |-> FALSE,
                            unityTexture |-> unityTarget.unityTexture, nativeTexture |-> 0,
                            idIsValid |-> FALSE]}

\* a deregistration has found and released a pending session in a run in
\* which an ALLOCATE has also created a Renderer
C37_Witness ==
    /\ IsST
    /\ g_renderers # EmptyMap
    /\ \E j \in JavaThreads : Deregistered(j) /\ Calls(threads[j], "DeleteGlobalRef") = 1

=============================================================================
